---- MODULE Spec2Model ----
(***************************************************************************)
(* The content-lifecycle pipeline of TelegramObsidianBridge.               *)
(*                                                                         *)
(* Directories are functions from file names to file contents.  A file     *)
(* name `{kind}_{YYYYmmdd_HHMMSS}.json` is the pair <<kind, second>>; a    *)
(* name with a further `_{x}` before the suffix is the triple              *)
(* <<kind, second, x>>.  A JSON file is the record (dict) it holds; a file *)
(* that has been opened for writing and not yet dumped holds PartialFile,  *)
(* which json.load rejects.  The text body of a capture is the capture's   *)
(* number, so that content can be followed through the stages.             *)
(***************************************************************************)
EXTENDS Integers, Sequences, FiniteSets, TLC

\* ------------------------------------------------------------ bounds
MaxClock == 2
MaxCaptures == 2
MaxPapRuns == 1
MaxRedeliver == 1
MaxTextLen == 3
MaxToolCalls == 2
MaxDailyNotes == 2
MaxRestarts == 2
\* The first second of the run's second calendar day.
Midnight == 2

\* ------------------------------------------------------------ constants
\* TelegramCaptureBot.run: max_retries, the initial retry_delay, max_delay.
max_retries == 10
initial_delay == 5
max_delay == 300

\* ------------------------------------------------------------ values
None == <<>>
NoFiles == [n \in {} |-> <<>>]
PartialFile == [partial |-> TRUE]

\* The kinds handle_text can classify a text as; IngestKinds are the ones
\* the bounded runs of the pipeline ingest.
TextKinds == {"todo", "idea", "link", "note"}
IngestKinds == {"idea"}

\* The folders setup_vault_structure creates under "Telegram Captures".
VaultFolders == {"TODOs", "Ideas", "Voice Notes", "Links", "Archive"}

VARIABLES
    clock,          \* datetime.now(), in seconds
    captured,       \* number of text captures handle_text has started
    textNames,      \* the filename handle_text gave to each capture, in order
    botWrite,       \* handle_text between open(filepath, "w") and json.dump
    incoming,       \* content/incoming
    processed,      \* content/processed
    archiveTexts,   \* content/archive/texts
    archive,        \* content/archive (move_processed_file)
    ready,          \* content/ready_for_obsidian
    vault,          \* <vault>/Telegram Captures/<folder>/<file>
    archived,       \* content/archived (move_to_obsidian)
    textPc,         \* TextProcessor worker: offline, drain, watching
    textTodo,       \* the glob listing process_existing_files iterates
    textEvents,     \* creation events the observer has queued for TextProcessor
    textCur,        \* process_text_file between the processed write and the archive
    textHandled,    \* names passed to process_text_file so far
    textLog,        \* outcome of the last process_text_file call
    redelivered,    \* creation events delivered a second time
    papPc,          \* process_all_pending: idle, incoming, processed
    papTodo,        \* the glob listing process_all_pending iterates
    papRuns,        \* calls of process_all_pending so far
    pubPc,          \* ObsidianFileManager worker: offline, watching
    pubEvents,      \* creation events queued for ObsidianFileManager
    pubCur,         \* move_to_obsidian between the copy and the archive
    pubLog,         \* outcome of the last move_to_obsidian call
    pubHandled,     \* names passed to move_to_obsidian so far
    voiceCaptured,  \* number of voice captures handle_voice has started
    voiceNames,     \* the filename handle_voice gave to each capture, in order
    botVoice,       \* handle_voice after the download, before the metadata is dumped
    voices,         \* content/voices
    archiveVoices,  \* content/archive/voices
    voicePc,        \* VoiceProcessor worker: offline, watching, dead
    voiceEvents,    \* creation events queued for VoiceProcessor
    voiceCur,       \* process_voice_file: its position and local variables
    voiceHandled,   \* audio names passed to process_voice_file so far
    voiceRaised,    \* exceptions that left VoiceProcessor.on_created
    trLog,          \* <<cause, result>> of every WhisperTranscriber.transcribe call so far
    text,           \* update.message.text of the messages handle_text receives
    toolCalls,      \* calls of the MCP tool process_for_obsidian so far
    digest,         \* <vault>/<YYYY-MM-DD>.md, by day: what was written, in order
    textRuns,       \* times the text service has been started again
    processed_items, \* process_all_pending: entries of processed_items, by status
    mainPc,         \* main: start (starting threads), loop, exited, terminated
    threads,        \* the threads main has started: alive or ended
    runPc,          \* TelegramCaptureBot.run: idle, polling, sleeping, done, raised
    attempt,        \* the loop variable of run
    retry_delay,    \* the local retry_delay of run
    slept,          \* the arguments of the time.sleep calls of run, in order
    errors          \* the classes of the errors that ended attempts of run

textVars == <<clock, captured, textNames, botWrite, incoming, processed, archiveTexts, archive,
              ready, vault, archived, textPc, textTodo, textEvents, textCur,
              textHandled, textLog, redelivered, papPc, papTodo, papRuns,
              pubPc, pubEvents, pubCur, pubLog, pubHandled>>

\* The variables of the text path that the voice path never touches.
textOnlyVars == <<captured, textNames, botWrite, incoming, archiveTexts, archive, ready, vault,
                  archived, textPc, textTodo, textEvents, textCur, textHandled,
                  textLog, redelivered, papPc, papTodo, papRuns, pubPc, pubEvents,
                  pubCur, pubLog, pubHandled, text, toolCalls, digest, textRuns,
                  processed_items, mainPc, threads, runPc, attempt, retry_delay,
                  slept, errors>>

\* main, its threads and the reconnect loop of the bot thread.
runVars == <<mainPc, threads, runPc, attempt, retry_delay, slept, errors>>

\* The restarts of the text service, the report of process_all_pending, and
\* runVars.
restVars == <<textRuns, processed_items, runVars>>

\* The message text, the tool-call count, the daily notes, and restVars.
sideVars == <<text, toolCalls, digest, restVars>>

voiceVars == <<voiceCaptured, voiceNames, botVoice, voices, archiveVoices, voicePc, voiceEvents,
               voiceCur, voiceHandled, voiceRaised, trLog>>

vars == <<textVars, voiceVars, sideVars>>

\* ------------------------------------------------------------ files
Exists(dir, name) == name \in DOMAIN dir

\* open(path, "w") followed by a complete write: creates or overwrites.
WriteFile(dir, name, data) ==
    [n \in DOMAIN dir \cup {name} |-> IF n = name THEN data ELSE dir[n]]

RemoveFile(dir, name) == [n \in DOMAIN dir \ {name} |-> dir[n]]

\* json.load succeeds on a completely written file only.
Parses(data) == "partial" \notin DOMAIN data

\* content[field] = value on a dict.
SetField(data, field, value) == (field :> value) @@ data

\* data.get(field, default)
GetField(data, field, default) ==
    IF field \in DOMAIN data THEN data[field] ELSE default

\* ------------------------------------------------------------ Ingestor
\* A message text is a sequence of pieces: the prefixes and substrings
\* handle_text looks for, a lower-case "todo:" and any other words ("x").
Pieces == {"TODO:", "Task:", "todo:", "IDEA:", "idea glyph", "http", "www.", "x"}

RECURSIVE SeqsUpTo(_, _)
SeqsUpTo(S, n) ==
    IF n = 0 THEN {<<>>}
    ELSE LET shorter == SeqsUpTo(S, n - 1)
         IN shorter \cup {Append(t, p) : t \in shorter, p \in S}

\* The texts handle_text goes on with: it returns at once on an empty text.
Texts == SeqsUpTo(Pieces, MaxTextLen) \ {<<>>}

\* text.startswith(prefix) and `sub in text`
StartsWith(t, prefix) == Len(t) > 0 /\ t[1] = prefix
Contains(t, sub) == \E i \in 1..Len(t) : t[i] = sub

\* handle_text testing for an idea before it tests for a todo.
MessageTypeIdeaFirst(t) ==
    IF StartsWith(t, "IDEA:") \/ Contains(t, "idea glyph") THEN "idea"
    ELSE IF StartsWith(t, "TODO:") \/ StartsWith(t, "Task:") THEN "todo"
    ELSE IF StartsWith(t, "http") \/ Contains(t, "www.") THEN "link"
    ELSE "note"

\* handle_text, lines 200-208: the message type of a text.
MessageType(t) ==
    IF StartsWith(t, "TODO:") \/ StartsWith(t, "Task:") THEN "todo"
    ELSE IF StartsWith(t, "IDEA:") \/ Contains(t, "idea glyph") THEN "idea"
    ELSE IF StartsWith(t, "http") \/ Contains(t, "www.") THEN "link"
    ELSE "note"

\* The record handle_text builds (bot.py 213-222); the body is capture `id`.
TextRecord(kind, id, now) ==
    [type |-> kind, content |-> id, timestamp |-> now,
     user_id |-> 1, username |-> "u", processed |-> FALSE]

\* filename = f"{message_type}_{timestamp.strftime('%Y%m%d_%H%M%S')}.json"
TextFileName(kind, now) == <<kind, now>>

\* watchdog reports a creation only for a path that did not exist.
CreatedEvents(pc, dir, name) ==
    IF pc = "watching" /\ ~Exists(dir, name) THEN {name} ELSE {}

\* handle_text waiting for the voice handler to finish before it saves.
HandleTextOpenAfterVoice(kind) ==
    /\ voiceCur = None
    /\ botWrite = None
    /\ captured < MaxCaptures
    /\ LET name == TextFileName(kind, clock)
       IN /\ textEvents' = textEvents \cup CreatedEvents(textPc, incoming, name)
          /\ incoming' = WriteFile(incoming, name, PartialFile)
          /\ botWrite' = <<name, TextRecord(kind, captured + 1, clock)>>
    /\ captured' = captured + 1
    /\ textNames' = Append(textNames, TextFileName(kind, clock))
    /\ UNCHANGED <<clock, processed, archiveTexts, archive, ready, vault, archived,
                   textPc, textTodo, textCur, textHandled, textLog, redelivered,
                   papPc, papTodo, papRuns, pubPc, pubEvents, pubCur, pubLog, pubHandled>>
    /\ UNCHANGED <<voiceVars, sideVars>>

\* handle_text up to open(filepath, "w"): the file is created or truncated.
HandleTextOpen(kind) ==
    /\ botWrite = None
    /\ captured < MaxCaptures
    /\ LET name == TextFileName(kind, clock)
       IN /\ textEvents' = textEvents \cup CreatedEvents(textPc, incoming, name)
          /\ incoming' = WriteFile(incoming, name, PartialFile)
          /\ botWrite' = <<name, TextRecord(kind, captured + 1, clock)>>
    /\ captured' = captured + 1
    /\ textNames' = Append(textNames, TextFileName(kind, clock))
    /\ UNCHANGED <<clock, processed, archiveTexts, archive, ready, vault, archived,
                   textPc, textTodo, textCur, textHandled, textLog, redelivered,
                   papPc, papTodo, papRuns, pubPc, pubEvents, pubCur, pubLog, pubHandled>>
    /\ UNCHANGED <<voiceVars, sideVars>>

\* handle_text saving a second copy of the record in the vault.
HandleTextDumpIntoVault ==
    /\ botWrite # None
    /\ incoming' = WriteFile(incoming, botWrite[1], botWrite[2])
    /\ vault' = WriteFile(vault, <<"Archive", botWrite[1]>>,
                          [type |-> "note", created |-> clock,
                           body |-> botWrite[2].content, context |-> ""])
    /\ botWrite' = None
    /\ UNCHANGED <<clock, captured, textNames, processed, archiveTexts, archive, ready,
                   archived, textPc, textTodo, textEvents, textCur, textHandled,
                   textLog, redelivered, papPc, papTodo, papRuns, pubPc, pubEvents,
                   pubCur, pubLog, pubHandled>>
    /\ UNCHANGED <<voiceVars, sideVars>>

\* json.dump(content, f): the record is completely written.
HandleTextDump ==
    /\ botWrite # None
    /\ incoming' = WriteFile(incoming, botWrite[1], botWrite[2])
    /\ botWrite' = None
    /\ UNCHANGED <<clock, captured, textNames, processed, archiveTexts, archive, ready, vault,
                   archived, textPc, textTodo, textEvents, textCur, textHandled,
                   textLog, redelivered, papPc, papTodo, papRuns, pubPc, pubEvents,
                   pubCur, pubLog, pubHandled>>
    /\ UNCHANGED <<voiceVars, sideVars>>

\* datetime.now() advances by one second.
Tick ==
    /\ clock < MaxClock
    /\ clock' = clock + 1
    /\ UNCHANGED <<captured, textNames, botWrite, incoming, processed, archiveTexts, archive,
                   ready, vault, archived, textPc, textTodo, textEvents, textCur,
                   textHandled, textLog, redelivered, papPc, papTodo, papRuns,
                   pubPc, pubEvents, pubCur, pubLog, pubHandled>>
    /\ UNCHANGED <<voiceVars, sideVars>>

\* ------------------------------------------------------------ Text Pipeline
\* _archive_text_file archiving under the name the file has in incoming.
ArchivedTextNameUnqualified(name, now) == name

\* archive_dir / f"{text_path.stem}_{timestamp_suffix}{text_path.suffix}"
ArchivedTextName(name, now) == <<name[1], name[2], now>>

\* process_text_file without its existence check: a missing source leaves a
\* stub in processed.
ProcessTextFileStub(name) ==
    /\ textCur = None
    /\ textHandled' = textHandled \cup {name}
    /\ IF Exists(incoming, name) /\ Parses(incoming[name])
       THEN LET content == SetField(incoming[name], "processed_at", clock)
            IN /\ processed' = WriteFile(processed, name, content)
               /\ textCur' = <<name, content>>
               /\ textLog' = <<name, "processed">>
       ELSE /\ textLog' = <<name, "failed">>
            /\ processed' = IF Exists(incoming, name) THEN processed
                            ELSE WriteFile(processed, name, [processed_at |-> clock])
            /\ UNCHANGED textCur

\* process_text_file forwarding a file it could not parse.
ProcessTextFileUnparsed(name) ==
    /\ textCur = None
    /\ textHandled' = textHandled \cup {name}
    /\ IF Exists(incoming, name)
       THEN LET content == SetField(incoming[name], "processed_at", clock)
            IN /\ processed' = WriteFile(processed, name, content)
               /\ textCur' = <<name, content>>
               /\ textLog' = <<name, "processed">>
       ELSE /\ textLog' = <<name, "failed">>
            /\ UNCHANGED <<processed, textCur>>

\* process_text_file, lines 33-46 and 51-52: load, stamp, write to processed.
\* A missing or unparseable source raises inside the try and is logged.
ProcessTextFile(name) ==
    /\ textCur = None
    /\ textHandled' = textHandled \cup {name}
    /\ IF Exists(incoming, name) /\ Parses(incoming[name])
       THEN LET content == SetField(incoming[name], "processed_at", clock)
            IN /\ processed' = WriteFile(processed, name, content)
               /\ textCur' = <<name, content>>
               /\ textLog' = <<name, "processed">>
       ELSE /\ textLog' = <<name, "failed">>
            /\ UNCHANGED <<processed, textCur>>

\* The bot holds the file open between open() and the end of json.dump.
OpenForWrite(name) == botWrite # None /\ botWrite[1] = name

\* _archive_text_file: rename to the archive, then rewrite with the archive
\* fields.  `fails` is the rename raising OSError, which line 78 catches; a
\* source that is gone, or that another process holds open, raises as well.
ArchiveTextFile(fails) ==
    /\ textCur # None
    /\ LET name == textCur[1]
           dest == ArchivedTextName(name, clock)
           content == SetField(SetField(textCur[2], "archived_to", dest),
                               "archived_at", clock)
       IN IF fails \/ ~Exists(incoming, name) \/ OpenForWrite(name)
          THEN /\ textLog' = <<name, "archive_failed">>
               /\ UNCHANGED <<incoming, archiveTexts>>
          ELSE /\ incoming' = RemoveFile(incoming, name)
               /\ archiveTexts' = WriteFile(archiveTexts, dest, content)
               /\ textLog' = <<name, "archived">>
    /\ textCur' = None
    /\ UNCHANGED <<clock, captured, textNames, botWrite, processed, archive, ready, vault,
                   archived, textPc, textTodo, textEvents, textHandled, redelivered,
                   papPc, papTodo, papRuns, pubPc, pubEvents, pubCur, pubLog, pubHandled>>
    /\ UNCHANGED <<voiceVars, sideVars>>

\* The text worker starting only when the voice worker has not failed.
TextStartUnlessVoiceFailed ==
    /\ voicePc # "failed"
    /\ textPc = "offline"
    /\ textPc' = "drain"
    /\ textTodo' = DOMAIN incoming
    /\ UNCHANGED <<clock, captured, textNames, botWrite, incoming, processed, archiveTexts,
                   archive, ready, vault, archived, textEvents, textCur, textHandled,
                   textLog, redelivered, papPc, papTodo, papRuns, pubPc, pubEvents,
                   pubCur, pubLog, pubHandled>>
    /\ UNCHANGED <<voiceVars, sideVars>>

\* start_monitoring enters process_existing_files: incoming_dir.glob("*.json").
TextStart ==
    /\ textPc = "offline"
    /\ textPc' = "drain"
    /\ textTodo' = DOMAIN incoming
    /\ UNCHANGED <<clock, captured, textNames, botWrite, incoming, processed, archiveTexts,
                   archive, ready, vault, archived, textEvents, textCur, textHandled,
                   textLog, redelivered, papPc, papTodo, papRuns, pubPc, pubEvents,
                   pubCur, pubLog, pubHandled>>
    /\ UNCHANGED <<voiceVars, sideVars>>

\* One iteration of the loop of process_existing_files.
TextDrain(name) ==
    /\ textPc = "drain"
    /\ name \in textTodo
    /\ textTodo' = textTodo \ {name}
    /\ ProcessTextFile(name)
    /\ UNCHANGED <<clock, captured, textNames, botWrite, incoming, archiveTexts, archive, ready,
                   vault, archived, textPc, textEvents, redelivered, papPc, papTodo,
                   papRuns, pubPc, pubEvents, pubCur, pubLog, pubHandled>>
    /\ UNCHANGED <<voiceVars, sideVars>>

\* The sweep is over: observer.schedule, observer.start.
TextStartWatch ==
    /\ textPc = "drain"
    /\ textTodo = {}
    /\ textCur = None
    /\ textPc' = "watching"
    /\ UNCHANGED <<clock, captured, textNames, botWrite, incoming, processed, archiveTexts,
                   archive, ready, vault, archived, textTodo, textEvents, textCur,
                   textHandled, textLog, redelivered, papPc, papTodo, papRuns,
                   pubPc, pubEvents, pubCur, pubLog, pubHandled>>
    /\ UNCHANGED <<voiceVars, sideVars>>

\* TextProcessor.on_created for a queued creation event (after its sleep).
TextOnCreated(name) ==
    /\ textPc = "watching"
    /\ name \in textEvents
    /\ textEvents' = textEvents \ {name}
    /\ ProcessTextFile(name)
    /\ UNCHANGED <<clock, captured, textNames, botWrite, incoming, archiveTexts, archive, ready,
                   vault, archived, textPc, textTodo, redelivered, papPc, papTodo,
                   papRuns, pubPc, pubEvents, pubCur, pubLog, pubHandled>>
    /\ UNCHANGED <<voiceVars, sideVars>>

\* The text service restarting with a listing of every path it has handled.
TextRestartListingHandled ==
    /\ textPc = "watching"
    /\ textCur = None
    /\ textRuns < MaxRestarts
    /\ textRuns' = textRuns + 1
    /\ textPc' = "drain"
    /\ textTodo' = DOMAIN incoming \cup textHandled
    /\ textEvents' = {}
    /\ UNCHANGED <<clock, captured, textNames, botWrite, incoming, processed, archiveTexts,
                   archive, ready, vault, archived, textCur, textHandled, textLog,
                   redelivered, papPc, papTodo, papRuns, pubPc, pubEvents, pubCur,
                   pubLog, pubHandled>>
    /\ UNCHANGED <<voiceVars, text, toolCalls, digest, processed_items, runVars>>

\* The text service is started again: start_monitoring runs
\* process_existing_files anew, over a fresh incoming_dir.glob("*.json"); the
\* events queued for the old observer are gone with it.
TextRestart ==
    /\ textPc = "watching"
    /\ textCur = None
    /\ textRuns < MaxRestarts
    /\ textRuns' = textRuns + 1
    /\ textPc' = "drain"
    /\ textTodo' = DOMAIN incoming
    /\ textEvents' = {}
    /\ UNCHANGED <<clock, captured, textNames, botWrite, incoming, processed, archiveTexts,
                   archive, ready, vault, archived, textCur, textHandled, textLog,
                   redelivered, papPc, papTodo, papRuns, pubPc, pubEvents, pubCur,
                   pubLog, pubHandled>>
    /\ UNCHANGED <<voiceVars, text, toolCalls, digest, processed_items, runVars>>

\* The observer delivers the creation event of an already handled path again.
TextRedeliver(name) ==
    /\ textPc = "watching"
    /\ redelivered < MaxRedeliver
    /\ name \in textHandled
    /\ name \notin textEvents
    /\ redelivered' = redelivered + 1
    /\ textEvents' = textEvents \cup {name}
    /\ UNCHANGED <<clock, captured, textNames, botWrite, incoming, processed, archiveTexts,
                   archive, ready, vault, archived, textPc, textTodo, textCur,
                   textHandled, textLog, papPc, papTodo, papRuns, pubPc, pubEvents,
                   pubCur, pubLog, pubHandled>>
    /\ UNCHANGED <<voiceVars, sideVars>>

\* ------------------------------------------------------------ Formatter
\* format_content_for_obsidian without its else branch: a content type it
\* does not know raises.
HeaderTypeNoDefault(contentType) ==
    CASE contentType = "todo" -> "todo"
      [] contentType = "voice_transcription" -> "voice-note"
      [] contentType = "idea" -> "idea"
      [] contentType \in {"link", "note", "voice"} -> "note"
      [] OTHER -> "raised"

\* The `type:` header format_content_for_obsidian writes for a content type.
HeaderType(contentType) ==
    CASE contentType = "todo" -> "todo"
      [] contentType = "voice_transcription" -> "voice-note"
      [] contentType = "idea" -> "idea"
      [] OTHER -> "note"

\* The rendered document, as the parts its text is made of.
FormatContentForObsidian(content, contentType, context, now) ==
    [type |-> HeaderType(contentType), created |-> now, body |-> content,
     context |-> context]

\* The context process_all_pending passes for a content type (lines 336-344).
SmartContext(contentType) ==
    CASE contentType = "todo" -> "task"
      [] contentType = "idea" -> "idea"
      [] contentType = "voice_transcription" -> "voice"
      [] OTHER -> "quick"

\* save_formatted_content: f"{content_type}_{timestamp.strftime(...)}.md"
ReadyFileName(contentType, now) == <<contentType, now>>

\* The content types a caller of process_for_obsidian passes: the kinds of the
\* pipeline, and "other" for any string the formatter has no template for.
FormatKinds == {"todo", "idea", "link", "note", "voice", "voice_transcription", "other"}

\* The MCP tool process_for_obsidian(content, content_type, additional_context)
\* without a source_file_path: format, save to ready_for_obsidian.
ProcessForObsidian(content, contentType, context) ==
    /\ toolCalls < MaxToolCalls
    /\ toolCalls' = toolCalls + 1
    /\ LET doc == FormatContentForObsidian(content, contentType, context, clock)
           out == ReadyFileName(contentType, clock)
       IN /\ ready' = WriteFile(ready, out, doc)
          /\ pubEvents' = pubEvents \cup CreatedEvents(pubPc, ready, out)
    /\ UNCHANGED <<clock, captured, textNames, botWrite, incoming, processed, archiveTexts,
                   archive, vault, archived, textPc, textTodo, textEvents, textCur,
                   textHandled, textLog, redelivered, papPc, papTodo, papRuns,
                   pubPc, pubCur, pubLog, pubHandled>>
    /\ UNCHANGED <<voiceVars, text, digest, restVars>>

\* process_for_obsidian when save_formatted_content raises (the directory or
\* the file cannot be written): the exception leaves the tool before
\* move_processed_file is reached.
ProcessForObsidianRaises ==
    /\ toolCalls < MaxToolCalls
    /\ toolCalls' = toolCalls + 1
    /\ UNCHANGED <<textVars, voiceVars, text, digest, restVars>>

\* ------------------------------------------------------------ formatting trigger
\* move_processed_file taking the first name it tries, free or not.
FreeArchiveNameTaken(name, n) == <<name[1], name[2], n>>

\* move_processed_file: archive/<name>, else the first free archive/<stem>_<n>.
RECURSIVE FreeArchiveName(_, _)
FreeArchiveName(name, n) ==
    IF Exists(archive, <<name[1], name[2], n>>)
    THEN FreeArchiveName(name, n + 1)
    ELSE <<name[1], name[2], n>>

\* The stage directory of a path given to process_for_obsidian.
StageDir(dirName) == IF dirName = "incoming" THEN incoming ELSE processed

\* The MCP tool process_for_obsidian with a source_file_path: format, save to
\* ready_for_obsidian, then move_processed_file, which returns at once when
\* the source does not exist.
ProcessForObsidianSource(content, contentType, context, dirName, name) ==
    /\ toolCalls < MaxToolCalls
    /\ toolCalls' = toolCalls + 1
    /\ LET doc == FormatContentForObsidian(content, contentType, context, clock)
           out == ReadyFileName(contentType, clock)
       IN /\ ready' = WriteFile(ready, out, doc)
          /\ pubEvents' = pubEvents \cup CreatedEvents(pubPc, ready, out)
    /\ IF Exists(StageDir(dirName), name)
       THEN /\ archive' = WriteFile(archive, FreeArchiveName(name, 0),
                                    StageDir(dirName)[name])
            /\ IF dirName = "incoming"
               THEN incoming' = RemoveFile(incoming, name) /\ UNCHANGED processed
               ELSE processed' = RemoveFile(processed, name) /\ UNCHANGED incoming
       ELSE UNCHANGED <<archive, incoming, processed>>
    /\ UNCHANGED <<clock, captured, textNames, botWrite, archiveTexts, vault, archived, textPc,
                   textTodo, textEvents, textCur, textHandled, textLog, redelivered,
                   papPc, papTodo, papRuns, pubPc, pubCur, pubLog, pubHandled>>
    /\ UNCHANGED <<voiceVars, text, digest, restVars>>

\* The directory process_all_pending is iterating.
PapDir == IF papPc = "incoming" THEN incoming ELSE processed

\* process_all_pending(auto_archive=True) is called: the glob of INCOMING_DIR.
PapStart ==
    /\ papPc = "idle"
    /\ papRuns < MaxPapRuns
    /\ papRuns' = papRuns + 1
    /\ papPc' = "incoming"
    /\ papTodo' = DOMAIN incoming
    /\ processed_items' = [success |-> 0, error |-> 0]
    /\ UNCHANGED <<clock, captured, textNames, botWrite, incoming, processed, archiveTexts,
                   archive, ready, vault, archived, textPc, textTodo, textEvents,
                   textCur, textHandled, textLog, redelivered, pubPc, pubEvents,
                   pubCur, pubLog, pubHandled>>
    /\ UNCHANGED <<voiceVars, text, toolCalls, digest, textRuns, runVars>>

\* One file of the listing: load, format, save to ready, move the source to
\* the archive.  A file that is gone or does not parse goes to error_items.
PapItem(name) ==
    /\ papPc \in {"incoming", "processed"}
    /\ name \in papTodo
    /\ papTodo' = papTodo \ {name}
    /\ IF Exists(PapDir, name) /\ Parses(PapDir[name])
       THEN LET data == PapDir[name]
                contentType == GetField(data, "type", "note")
                content == IF contentType = "voice_transcription"
                           THEN GetField(data, "transcription", "")
                           ELSE GetField(data, "content", "")
                doc == FormatContentForObsidian(content, contentType,
                                                SmartContext(contentType), clock)
                out == ReadyFileName(contentType, clock)
            IN /\ ready' = WriteFile(ready, out, doc)
               /\ pubEvents' = pubEvents \cup CreatedEvents(pubPc, ready, out)
               /\ archive' = WriteFile(archive, FreeArchiveName(name, 0), data)
               /\ IF papPc = "incoming"
                  THEN incoming' = RemoveFile(incoming, name) /\ UNCHANGED processed
                  ELSE processed' = RemoveFile(processed, name) /\ UNCHANGED incoming
               /\ processed_items' =
                      [processed_items EXCEPT !.success = processed_items.success + 1]
       ELSE UNCHANGED <<ready, pubEvents, archive, incoming, processed, processed_items>>
    /\ UNCHANGED <<clock, captured, textNames, botWrite, archiveTexts, vault, archived, textPc,
                   textTodo, textEvents, textCur, textHandled, textLog, redelivered,
                   papPc, papRuns, pubPc, pubCur, pubLog, pubHandled>>
    /\ UNCHANGED <<voiceVars, text, toolCalls, digest, textRuns, runVars>>

\* One file of the listing archived although save_formatted_content raised.
PapItemSaveRaisesArchiving(name) ==
    /\ papPc \in {"incoming", "processed"}
    /\ name \in papTodo
    /\ Exists(PapDir, name) /\ Parses(PapDir[name])
    /\ papTodo' = papTodo \ {name}
    /\ processed_items' = [processed_items EXCEPT !.error = processed_items.error + 1]
    /\ archive' = WriteFile(archive, FreeArchiveName(name, 0), PapDir[name])
    /\ IF papPc = "incoming"
       THEN incoming' = RemoveFile(incoming, name) /\ UNCHANGED processed
       ELSE processed' = RemoveFile(processed, name) /\ UNCHANGED incoming
    /\ UNCHANGED <<clock, captured, textNames, botWrite, archiveTexts, ready, vault, archived,
                   textPc, textTodo, textEvents, textCur, textHandled, textLog,
                   redelivered, papPc, papRuns, pubPc, pubEvents, pubCur, pubLog,
                   pubHandled>>
    /\ UNCHANGED <<voiceVars, text, toolCalls, digest, textRuns, runVars>>

\* One file of the listing when save_formatted_content raises: line 368
\* catches it and the item is reported with status error; the source stays.
PapItemSaveRaises(name) ==
    /\ papPc \in {"incoming", "processed"}
    /\ name \in papTodo
    /\ Exists(PapDir, name) /\ Parses(PapDir[name])
    /\ papTodo' = papTodo \ {name}
    /\ processed_items' = [processed_items EXCEPT !.error = processed_items.error + 1]
    /\ UNCHANGED <<clock, captured, textNames, botWrite, incoming, processed, archiveTexts,
                   archive, ready, vault, archived, textPc, textTodo, textEvents,
                   textCur, textHandled, textLog, redelivered, papPc, papRuns, pubPc,
                   pubEvents, pubCur, pubLog, pubHandled>>
    /\ UNCHANGED <<voiceVars, text, toolCalls, digest, textRuns, runVars>>

\* One file of the listing when the rename in move_processed_file raises:
\* line 47 catches and logs it; the document is saved, the source stays, and
\* the item is reported with status success.
PapItemMoveFails(name) ==
    /\ papPc \in {"incoming", "processed"}
    /\ name \in papTodo
    /\ Exists(PapDir, name) /\ Parses(PapDir[name])
    /\ papTodo' = papTodo \ {name}
    /\ LET data == PapDir[name]
           contentType == GetField(data, "type", "note")
           content == IF contentType = "voice_transcription"
                      THEN GetField(data, "transcription", "")
                      ELSE GetField(data, "content", "")
           doc == FormatContentForObsidian(content, contentType,
                                           SmartContext(contentType), clock)
           out == ReadyFileName(contentType, clock)
       IN /\ ready' = WriteFile(ready, out, doc)
          /\ pubEvents' = pubEvents \cup CreatedEvents(pubPc, ready, out)
    /\ processed_items' = [processed_items EXCEPT !.success = processed_items.success + 1]
    /\ UNCHANGED <<clock, captured, textNames, botWrite, incoming, processed, archiveTexts,
                   archive, vault, archived, textPc, textTodo, textEvents, textCur,
                   textHandled, textLog, redelivered, papPc, papRuns, pubPc, pubCur,
                   pubLog, pubHandled>>
    /\ UNCHANGED <<voiceVars, text, toolCalls, digest, textRuns, runVars>>

\* The loop over INCOMING_DIR is over: the glob of PROCESSED_DIR.
PapNextDir ==
    /\ papPc = "incoming"
    /\ papTodo = {}
    /\ papPc' = "processed"
    /\ papTodo' = DOMAIN processed
    /\ UNCHANGED <<clock, captured, textNames, botWrite, incoming, processed, archiveTexts,
                   archive, ready, vault, archived, textPc, textTodo, textEvents,
                   textCur, textHandled, textLog, redelivered, papRuns, pubPc,
                   pubEvents, pubCur, pubLog, pubHandled>>
    /\ UNCHANGED <<voiceVars, sideVars>>

\* Both loops are over: process_all_pending returns.
PapReturn ==
    /\ papPc = "processed"
    /\ papTodo = {}
    /\ papPc' = "idle"
    /\ UNCHANGED <<clock, captured, textNames, botWrite, incoming, processed, archiveTexts,
                   archive, ready, vault, archived, textPc, textTodo, textEvents,
                   textCur, textHandled, textLog, redelivered, papTodo, papRuns,
                   pubPc, pubEvents, pubCur, pubLog, pubHandled>>
    /\ UNCHANGED <<voiceVars, sideVars>>

\* ------------------------------------------------------------ Vault Publisher
\* move_to_obsidian without its idea_ branch.
TargetFolderNoIdeas(name) ==
    CASE name[1] = "todo" -> "TODOs"
      [] name[1] \in {"voice", "voice_transcription"} -> "Voice Notes"
      [] name[1] = "link" -> "Quick Notes"
      [] OTHER -> "Archive"

\* move_to_obsidian, lines 52-62: the folder for a filename prefix.
TargetFolder(name) ==
    CASE name[1] = "todo" -> "TODOs"
      [] name[1] = "idea" -> "Ideas"
      [] name[1] \in {"voice", "voice_transcription"} -> "Voice Notes"
      [] name[1] = "link" -> "Quick Notes"
      [] OTHER -> "Archive"

\* ObsidianFileManager.start_monitoring: observer.start().
PubStart ==
    /\ pubPc = "offline"
    /\ pubPc' = "watching"
    /\ UNCHANGED <<clock, captured, textNames, botWrite, incoming, processed, archiveTexts,
                   archive, ready, vault, archived, textPc, textTodo, textEvents,
                   textCur, textHandled, textLog, redelivered, papPc, papTodo,
                   papRuns, pubEvents, pubCur, pubLog, pubHandled>>
    /\ UNCHANGED <<voiceVars, sideVars>>

\* move_to_obsidian archiving the ready copy although the copy failed.
MoveToObsidianArchiving(name) ==
    /\ pubPc = "watching"
    /\ pubCur = None
    /\ name \in pubEvents
    /\ pubEvents' = pubEvents \ {name}
    /\ pubHandled' = pubHandled \cup {name}
    /\ IF Exists(ready, name) /\ TargetFolder(name) \in VaultFolders
       THEN /\ vault' = WriteFile(vault, <<TargetFolder(name), name>>, ready[name])
            /\ pubCur' = name
            /\ pubLog' = <<name, "copied">>
            /\ UNCHANGED <<ready, archived>>
       ELSE /\ pubLog' = <<name, "failed">>
            /\ archived' = IF Exists(ready, name)
                           THEN WriteFile(archived, name, ready[name]) ELSE archived
            /\ ready' = IF Exists(ready, name) THEN RemoveFile(ready, name) ELSE ready
            /\ UNCHANGED <<vault, pubCur>>
    /\ UNCHANGED <<clock, captured, textNames, botWrite, incoming, processed, archiveTexts,
                   archive, textPc, textTodo, textEvents, textCur,
                   textHandled, textLog, redelivered, papPc, papTodo, papRuns, pubPc>>
    /\ UNCHANGED <<voiceVars, sideVars>>

\* on_created -> move_to_obsidian up to shutil.copy2, which raises when the
\* source is gone or the target folder does not exist; line 75 catches it.
MoveToObsidian(name) ==
    /\ pubPc = "watching"
    /\ pubCur = None
    /\ name \in pubEvents
    /\ pubEvents' = pubEvents \ {name}
    /\ pubHandled' = pubHandled \cup {name}
    /\ IF Exists(ready, name) /\ TargetFolder(name) \in VaultFolders
       THEN /\ vault' = WriteFile(vault, <<TargetFolder(name), name>>, ready[name])
            /\ pubCur' = name
            /\ pubLog' = <<name, "copied">>
       ELSE /\ pubLog' = <<name, "failed">>
            /\ UNCHANGED <<vault, pubCur>>
    /\ UNCHANGED <<clock, captured, textNames, botWrite, incoming, processed, archiveTexts,
                   archive, ready, archived, textPc, textTodo, textEvents, textCur,
                   textHandled, textLog, redelivered, papPc, papTodo, papRuns, pubPc>>
    /\ UNCHANGED <<voiceVars, sideVars>>

\* move_to_obsidian when shutil.copy2 raises because the vault cannot be
\* written (the target cannot be opened): line 75 catches it.
MoveToObsidianRaises(name) ==
    /\ pubPc = "watching"
    /\ pubCur = None
    /\ name \in pubEvents
    /\ pubEvents' = pubEvents \ {name}
    /\ pubHandled' = pubHandled \cup {name}
    /\ pubLog' = <<name, "failed">>
    /\ UNCHANGED <<clock, captured, textNames, botWrite, incoming, processed, archiveTexts,
                   archive, ready, vault, archived, textPc, textTodo, textEvents,
                   textCur, textHandled, textLog, redelivered, papPc, papTodo,
                   papRuns, pubPc, pubCur>>
    /\ UNCHANGED <<voiceVars, sideVars>>

\* move_to_obsidian deleting the ready copy instead of archiving it.
ArchiveReadyFileUnlinking(fails) ==
    /\ pubCur # None
    /\ IF fails \/ ~Exists(ready, pubCur)
       THEN /\ pubLog' = <<pubCur, "archive_failed">>
            /\ UNCHANGED ready
       ELSE /\ ready' = RemoveFile(ready, pubCur)
            /\ pubLog' = <<pubCur, "archived">>
    /\ pubCur' = None
    /\ UNCHANGED <<clock, captured, textNames, botWrite, incoming, processed, archiveTexts,
                   archive, vault, archived, textPc, textTodo, textEvents, textCur,
                   textHandled, textLog, redelivered, papPc, papTodo, papRuns, pubPc,
                   pubEvents, pubHandled>>
    /\ UNCHANGED <<voiceVars, sideVars>>

\* file_path.rename(archive_dir / filename); `fails` is the rename raising.
ArchiveReadyFile(fails) ==
    /\ pubCur # None
    /\ IF fails \/ ~Exists(ready, pubCur)
       THEN /\ pubLog' = <<pubCur, "archive_failed">>
            /\ UNCHANGED <<ready, archived>>
       ELSE /\ archived' = WriteFile(archived, pubCur, ready[pubCur])
            /\ ready' = RemoveFile(ready, pubCur)
            /\ pubLog' = <<pubCur, "archived">>
    /\ pubCur' = None
    /\ UNCHANGED <<clock, captured, textNames, botWrite, incoming, processed, archiveTexts,
                   archive, vault, textPc, textTodo, textEvents, textCur, textHandled,
                   textLog, redelivered, papPc, papTodo, papRuns, pubPc, pubEvents,
                   pubHandled>>
    /\ UNCHANGED <<voiceVars, sideVars>>

\* The observer delivers the creation event of an already published path again.
PubRedeliver(name) ==
    /\ pubPc = "watching"
    /\ redelivered < MaxRedeliver
    /\ Exists(vault, <<TargetFolder(name), name>>)
    /\ name \notin pubEvents
    /\ redelivered' = redelivered + 1
    /\ pubEvents' = pubEvents \cup {name}
    /\ UNCHANGED <<clock, captured, textNames, botWrite, incoming, processed,
                   archiveTexts, archive, ready, vault, archived, textPc, textTodo,
                   textEvents, textCur, textHandled, textLog, papPc, papTodo,
                   papRuns, pubPc, pubCur, pubLog, pubHandled>>
    /\ UNCHANGED <<voiceVars, sideVars>>

\* ------------------------------------------------------------ daily note
\* The calendar day of a second.
DayOf(sec) == IF sec < Midnight THEN 1 ELSE 2

\* (telegram_folder / folder).glob(f"*{today.strftime('%Y%m%d')}*.md"); the
\* glob of a folder that does not exist is empty.
DatedIn(folder, day) ==
    {n \in DOMAIN vault : n[1] = folder /\ DayOf(n[2][2]) = day}

\* The section create_daily_note writes, lines 84-126.
TelegramSection(day) ==
    [todos |-> Cardinality(DatedIn("TODOs", day)),
     ideas |-> Cardinality(DatedIn("Ideas", day)),
     voice |-> Cardinality(DatedIn("Voice Notes", day)),
     notes |-> Cardinality(DatedIn("Quick Notes", day))]

\* create_daily_note opening the note with mode "w" whether it exists or not.
CreateDailyNoteRewriting ==
    /\ LET today == DayOf(clock)
       IN /\ Exists(digest, today) => Len(digest[today]) <= MaxDailyNotes
          /\ digest' = WriteFile(digest, today,
                           <<[heading |-> today], TelegramSection(today)>>)
    /\ UNCHANGED <<textVars, voiceVars, text, toolCalls, restVars>>

\* create_daily_note: append the section to today's note, or create the note
\* with its heading and the section.
CreateDailyNote ==
    /\ LET today == DayOf(clock)
       IN /\ Exists(digest, today) => Len(digest[today]) <= MaxDailyNotes
          /\ digest' = IF Exists(digest, today)
                        THEN WriteFile(digest, today,
                                 Append(digest[today], TelegramSection(today)))
                        ELSE WriteFile(digest, today,
                                 <<[heading |-> today], TelegramSection(today)>>)
    /\ UNCHANGED <<textVars, voiceVars, text, toolCalls, restVars>>

\* ------------------------------------------------------------ voice capture
Ogg(sec) == <<"voice", sec, "ogg">>
Meta(sec) == <<"voice", sec, "json">>
Wav(sec) == <<"voice", sec, "wav">>
Txt(sec) == <<"voice", sec, "txt">>

\* The metadata handle_voice builds (bot.py 257-264).
VoiceMetadata(sec) ==
    [type |-> "voice", filename |-> Ogg(sec), duration |-> 1, timestamp |-> sec,
     user_id |-> 1, processed |-> FALSE]

\* handle_voice up to download_to_drive: the audio asset is in voices.
HandleVoiceDownload ==
    /\ botVoice = None
    /\ voiceCaptured < MaxCaptures
    /\ voiceCaptured' = voiceCaptured + 1
    /\ voiceNames' = Append(voiceNames, Ogg(clock))
    /\ voiceEvents' = voiceEvents \cup CreatedEvents(voicePc, voices, Ogg(clock))
    /\ voices' = WriteFile(voices, Ogg(clock), [audio |-> voiceCaptured + 1])
    /\ botVoice' = <<clock, "open">>
    /\ UNCHANGED <<clock, processed, archiveVoices, voicePc, voiceCur, voiceHandled,
                   voiceRaised, trLog>>
    /\ UNCHANGED textOnlyVars

\* open(meta_path, "w"): the metadata file is created or truncated.
HandleVoiceMetaOpen ==
    /\ botVoice # None
    /\ botVoice[2] = "open"
    /\ voices' = WriteFile(voices, Meta(botVoice[1]), PartialFile)
    /\ botVoice' = <<botVoice[1], "dump">>
    /\ UNCHANGED <<clock, processed, voiceCaptured, voiceNames, archiveVoices, voicePc,
                   voiceEvents, voiceCur, voiceHandled, voiceRaised, trLog>>
    /\ UNCHANGED textOnlyVars

\* json.dump(metadata, f): the metadata is completely written.
HandleVoiceMetaDump ==
    /\ botVoice # None
    /\ botVoice[2] = "dump"
    /\ voices' = WriteFile(voices, Meta(botVoice[1]), VoiceMetadata(botVoice[1]))
    /\ botVoice' = None
    /\ UNCHANGED <<clock, processed, voiceCaptured, voiceNames, archiveVoices, voicePc,
                   voiceEvents, voiceCur, voiceHandled, voiceRaised, trLog>>
    /\ UNCHANGED textOnlyVars

\* ------------------------------------------------------------ Voice Pipeline
\* What the engine's output file can hold once read and stripped.
Transcripts == {"", "words"}

\* Python truthiness of transcribe's result: None and "" are false.
Truthy(transcription) == transcription \notin {"None", ""}

\* run_voice_processor: WhisperTranscriber.__init__ raises FileNotFoundError
\* when the model or the executable is missing; else start_monitoring starts
\* the observer, without a sweep of voices.
VoiceStart(prerequisites) ==
    /\ voicePc = "offline"
    /\ voicePc' = IF prerequisites THEN "watching" ELSE "failed"
    /\ UNCHANGED <<clock, processed, voiceCaptured, voiceNames, botVoice, voices, archiveVoices,
                   voiceEvents, voiceCur, voiceHandled, voiceRaised, trLog>>
    /\ UNCHANGED textOnlyVars

\* on_created -> process_voice_file, lines 32-41: load the metadata or make
\* one up.  json.load on a partly written file raises, and nothing catches it:
\* the exception leaves on_created and ends the observer's thread.
VoiceOnCreated(sec) ==
    /\ voicePc = "watching"
    /\ voiceCur = None
    /\ Ogg(sec) \in voiceEvents
    /\ voiceEvents' = voiceEvents \ {Ogg(sec)}
    /\ voiceHandled' = voiceHandled \cup {Ogg(sec)}
    /\ IF Exists(voices, Meta(sec)) /\ ~Parses(voices[Meta(sec)])
       THEN /\ voiceRaised' = voiceRaised \cup {"metadata"}
            /\ voicePc' = "dead"
            /\ UNCHANGED voiceCur
       ELSE /\ voiceCur' = [sec |-> sec, step |-> "convert",
                            metadata |-> IF Exists(voices, Meta(sec))
                                         THEN voices[Meta(sec)]
                                         ELSE [timestamp |-> clock],
                            transcription |-> "None", suffix |-> 0]
            /\ UNCHANGED <<voiceRaised, voicePc>>
    /\ UNCHANGED <<clock, processed, voiceCaptured, voiceNames, botVoice, voices, archiveVoices,
                   trLog>>
    /\ UNCHANGED textOnlyVars

\* The observer delivers the creation event of an already handled audio path
\* again.
VoiceRedeliver(sec) ==
    /\ voicePc = "watching"
    /\ redelivered < MaxRedeliver
    /\ Ogg(sec) \in voiceHandled
    /\ Ogg(sec) \notin voiceEvents
    /\ redelivered' = redelivered + 1
    /\ voiceEvents' = voiceEvents \cup {Ogg(sec)}
    /\ UNCHANGED <<clock, captured, textNames, botWrite, incoming, processed,
                   archiveTexts, archive, ready, vault, archived, textPc, textTodo,
                   textEvents, textCur, textHandled, textLog, papPc, papTodo,
                   papRuns, pubPc, pubEvents, pubCur, pubLog, pubHandled>>
    /\ UNCHANGED <<voiceCaptured, voiceNames, botVoice, voices, archiveVoices, voicePc,
                   voiceCur, voiceHandled, voiceRaised, trLog, sideVars>>

\* transcribe -> convert_ogg_to_wav: ffmpeg writes the .wav, or fails and the
\* CalledProcessError (FileNotFoundError) is raised again, through transcribe
\* and process_voice_file.
ConvertOggToWav(ok) ==
    /\ voiceCur # None
    /\ voiceCur.step = "convert"
    /\ IF ok /\ Exists(voices, Ogg(voiceCur.sec))
       THEN /\ voices' = WriteFile(voices, Wav(voiceCur.sec), [audio |-> "wav"])
            /\ voiceCur' = [voiceCur EXCEPT !.step = "engine"]
            /\ UNCHANGED <<voiceRaised, voicePc, trLog>>
       ELSE /\ trLog' = trLog \cup {<<"conversion_failed", "raised">>}
            /\ voiceRaised' = voiceRaised \cup {"conversion"}
            /\ voicePc' = "dead"
            /\ voiceCur' = None
            /\ UNCHANGED voices
    /\ UNCHANGED <<clock, processed, voiceCaptured, voiceNames, botVoice, archiveVoices,
                   voiceEvents, voiceHandled>>
    /\ UNCHANGED textOnlyVars

\* transcribe, lines 75-83 and 101-103: the engine runs.  A non-zero exit is
\* caught and None returned; a zero exit may or may not have left the .txt.
RunWhisper(exit, output) ==
    /\ voiceCur # None
    /\ voiceCur.step = "engine"
    /\ IF exit # 0
       THEN /\ trLog' = trLog \cup {<<"engine_failed", "None">>}
            /\ voiceCur' = [voiceCur EXCEPT !.step = "returned", !.transcription = "None"]
            /\ UNCHANGED voices
       ELSE /\ voices' = IF output = "None" THEN voices
                         ELSE WriteFile(voices, Txt(voiceCur.sec), [text |-> output])
            /\ voiceCur' = [voiceCur EXCEPT !.step = "read"]
            /\ UNCHANGED trLog
    /\ UNCHANGED <<clock, processed, voiceCaptured, voiceNames, botVoice, archiveVoices, voicePc,
                   voiceEvents, voiceHandled, voiceRaised>>
    /\ UNCHANGED textOnlyVars

\* transcribe leaving the converted .wav behind after a successful read.
ReadTranscriptionKeepingWav ==
    /\ voiceCur # None
    /\ voiceCur.step = "read"
    /\ IF Exists(voices, Txt(voiceCur.sec))
       THEN LET transcription == voices[Txt(voiceCur.sec)].text
            IN /\ voices' = RemoveFile(voices, Txt(voiceCur.sec))
               /\ trLog' = trLog \cup {<<"ok", transcription>>}
               /\ voiceCur' = [voiceCur EXCEPT !.step = "returned",
                                               !.transcription = transcription]
       ELSE /\ trLog' = trLog \cup {<<"no_output", "None">>}
            /\ voiceCur' = [voiceCur EXCEPT !.step = "returned",
                                            !.transcription = "None"]
            /\ UNCHANGED voices
    /\ UNCHANGED <<clock, processed, voiceCaptured, voiceNames, botVoice, archiveVoices, voicePc,
                   voiceEvents, voiceHandled, voiceRaised>>
    /\ UNCHANGED textOnlyVars

\* transcribe, lines 86-99: read and strip the output, delete it and the .wav,
\* return the text; None when the output file is not there.
ReadTranscription ==
    /\ voiceCur # None
    /\ voiceCur.step = "read"
    /\ IF Exists(voices, Txt(voiceCur.sec))
       THEN LET transcription == voices[Txt(voiceCur.sec)].text
            IN /\ voices' = RemoveFile(RemoveFile(voices, Txt(voiceCur.sec)),
                                       Wav(voiceCur.sec))
               /\ trLog' = trLog \cup {<<"ok", transcription>>}
               /\ voiceCur' = [voiceCur EXCEPT !.step = "returned",
                                               !.transcription = transcription]
       ELSE /\ trLog' = trLog \cup {<<"no_output", "None">>}
            /\ voiceCur' = [voiceCur EXCEPT !.step = "returned",
                                            !.transcription = "None"]
            /\ UNCHANGED voices
    /\ UNCHANGED <<clock, processed, voiceCaptured, voiceNames, botVoice, archiveVoices, voicePc,
                   voiceEvents, voiceHandled, voiceRaised>>
    /\ UNCHANGED textOnlyVars

\* output_path = self.processed_dir / f"voice_{voice_path.stem}.json"
VoiceOutputName(sec) == <<"voice_voice", sec>>

\* process_voice_file deleting the audio it could not transcribe.
SaveTranscriptionDiscarding ==
    /\ voiceCur # None
    /\ voiceCur.step = "returned"
    /\ IF Truthy(voiceCur.transcription)
       THEN /\ processed' = WriteFile(processed, VoiceOutputName(voiceCur.sec),
                   [type |-> "voice_transcription",
                    original_file |-> Ogg(voiceCur.sec),
                    transcription |-> voiceCur.transcription,
                    timestamp |-> GetField(voiceCur.metadata, "timestamp", "None"),
                    processed_at |-> clock,
                    duration |-> GetField(voiceCur.metadata, "duration", 0)])
            /\ voiceCur' = [voiceCur EXCEPT !.step = "archive"]
            /\ UNCHANGED voices
       ELSE /\ voiceCur' = None
            /\ voices' = IF Exists(voices, Ogg(voiceCur.sec))
                         THEN RemoveFile(voices, Ogg(voiceCur.sec)) ELSE voices
            /\ UNCHANGED processed
    /\ UNCHANGED <<clock, voiceCaptured, voiceNames, botVoice, archiveVoices, voicePc,
                   voiceEvents, voiceHandled, voiceRaised, trLog>>
    /\ UNCHANGED textOnlyVars

\* process_voice_file, lines 47-66: with a transcription, write the processed
\* record; without one, log the failure and return.
SaveTranscription ==
    /\ voiceCur # None
    /\ voiceCur.step = "returned"
    /\ IF Truthy(voiceCur.transcription)
       THEN /\ processed' = WriteFile(processed, VoiceOutputName(voiceCur.sec),
                   [type |-> "voice_transcription",
                    original_file |-> Ogg(voiceCur.sec),
                    transcription |-> voiceCur.transcription,
                    timestamp |-> GetField(voiceCur.metadata, "timestamp", "None"),
                    processed_at |-> clock,
                    duration |-> GetField(voiceCur.metadata, "duration", 0)])
            /\ voiceCur' = [voiceCur EXCEPT !.step = "archive"]
       ELSE /\ voiceCur' = None
            /\ UNCHANGED processed
    /\ UNCHANGED <<clock, voiceCaptured, voiceNames, botVoice, voices, archiveVoices, voicePc,
                   voiceEvents, voiceHandled, voiceRaised, trLog>>
    /\ UNCHANGED textOnlyVars

\* archive_dir / f"{voice_path.stem}_{timestamp_suffix}{suffix}"
ArchivedVoiceName(sec, now, suffix) == <<"voice", sec, now, suffix>>

\* The metadata _archive_voice_files stores (lines 82-89).
ArchivedMetadata(metadata, transcription, dest, now) ==
    SetField(SetField(SetField(SetField(metadata, "processed", TRUE),
        "transcription_preview", transcription), "archived_to", dest),
        "archived_at", now)

\* _archive_voice_files, line 92: voice_path.rename(archived_voice).  A raise
\* is caught at line 106 and ends the archiving.
ArchiveVoiceFile(fails) ==
    /\ voiceCur # None
    /\ voiceCur.step = "archive"
    /\ IF fails \/ ~Exists(voices, Ogg(voiceCur.sec))
       THEN /\ voiceCur' = None
            /\ UNCHANGED <<voices, archiveVoices>>
       ELSE /\ archiveVoices' = WriteFile(archiveVoices,
                   ArchivedVoiceName(voiceCur.sec, clock, "ogg"),
                   voices[Ogg(voiceCur.sec)])
            /\ voices' = RemoveFile(voices, Ogg(voiceCur.sec))
            /\ voiceCur' = [voiceCur EXCEPT !.step = "archive_meta",
                   !.metadata = ArchivedMetadata(voiceCur.metadata,
                       voiceCur.transcription,
                       ArchivedVoiceName(voiceCur.sec, clock, "ogg"), clock),
                   !.suffix = clock]
    /\ UNCHANGED <<clock, processed, voiceCaptured, voiceNames, botVoice, voicePc, voiceEvents,
                   voiceHandled, voiceRaised, trLog>>
    /\ UNCHANGED textOnlyVars

\* _archive_voice_files, lines 93-101: move the metadata file and rewrite it,
\* or create it in the archive when voices holds none.
ArchiveVoiceMeta(fails) ==
    /\ voiceCur # None
    /\ voiceCur.step = "archive_meta"
    /\ LET sec == voiceCur.sec
           dest == ArchivedVoiceName(sec, voiceCur.suffix, "json")
       IN IF fails
          THEN UNCHANGED <<voices, archiveVoices>>
          ELSE /\ archiveVoices' = WriteFile(archiveVoices, dest, voiceCur.metadata)
               /\ voices' = IF Exists(voices, Meta(sec))
                            THEN RemoveFile(voices, Meta(sec)) ELSE voices
    /\ voiceCur' = None
    /\ UNCHANGED <<clock, processed, voiceCaptured, voiceNames, botVoice, voicePc, voiceEvents,
                   voiceHandled, voiceRaised, trLog>>
    /\ UNCHANGED textOnlyVars

\* ------------------------------------------------------------ main
\* The threads main builds, in the order of threads.append.
Threads == <<"bot", "voice", "text", "obsidian">>

\* threading.Thread(..., daemon=True) at lines 75, 79-81 and 85-87; the
\* Obsidian manager thread (lines 91-94) is built without the argument.
Daemon(thread) == thread \in {"bot", "voice", "text"}

\* for thread in threads: thread.start(); after the last one main enters its
\* loop.
MainStartThread ==
    /\ mainPc = "start"
    /\ LET n == Cardinality(DOMAIN threads)
       IN /\ threads' = WriteFile(threads, Threads[n + 1], "alive")
          /\ mainPc' = IF n + 1 = Len(Threads) THEN "loop" ELSE "start"
    /\ UNCHANGED <<textVars, voiceVars, text, toolCalls, digest, textRuns,
                   processed_items, runPc, attempt, retry_delay, slept, errors>>

\* KeyboardInterrupt in main: caught at line 108 in the loop, uncaught while
\* the threads are started; either way the main thread ends.
MainInterrupt ==
    /\ mainPc \in {"start", "loop"}
    /\ mainPc' = "exited"
    /\ UNCHANGED <<textVars, voiceVars, text, toolCalls, digest, textRuns,
                   processed_items, threads, runPc, attempt, retry_delay, slept,
                   errors>>

\* The interpreter exits once the main thread has ended and no thread that is
\* not a daemon is alive; the daemon threads stop with it.
ProcessExit ==
    /\ mainPc = "exited"
    /\ \A t \in DOMAIN threads : threads[t] = "alive" => Daemon(t)
    /\ mainPc' = "terminated"
    /\ threads' = [t \in DOMAIN threads |-> "ended"]
    /\ UNCHANGED <<textVars, voiceVars, text, toolCalls, digest, textRuns,
                   processed_items, runPc, attempt, retry_delay, slept, errors>>

\* run_voice_processor: WhisperTranscriber.__init__ raises and the thread ends.
VoiceThreadEnds ==
    /\ mainPc # "terminated"
    /\ Exists(threads, "voice")
    /\ threads["voice"] = "alive"
    /\ threads' = WriteFile(threads, "voice", "ended")
    /\ UNCHANGED <<textVars, voiceVars, text, toolCalls, digest, textRuns,
                   processed_items, mainPc, runPc, attempt, retry_delay, slept,
                   errors>>

\* ------------------------------------------------------------ reconnect loop
\* How an attempt of run ends: run_polling returns, KeyboardInterrupt, or an
\* error of one of the three classes run distinguishes.
ErrorClasses == {"telegram", "http", "other"}
Outcomes == {"normal", "KeyboardInterrupt"} \cup ErrorClasses

\* retry_delay = retry_delay * 2, without the cap.
NextDelayUncapped(delay) == delay * 2

\* retry_delay = min(retry_delay * 2, max_delay)
NextDelay(delay) == IF delay * 2 < max_delay THEN delay * 2 ELSE max_delay

\* The bot thread runs.
BotAlive == Exists(threads, "bot") /\ threads["bot"] = "alive"

\* run_telegram_bot calls bot.run(): the first iteration of the for loop.
RunStart ==
    /\ BotAlive
    /\ runPc = "idle"
    /\ runPc' = "polling"
    /\ UNCHANGED <<textVars, voiceVars, text, toolCalls, digest, textRuns,
                   processed_items, mainPc, threads, attempt, retry_delay, slept,
                   errors>>

\* run sleeping and retrying after every failed attempt, the last included.
AttemptEndsNeverRaising(outcome) ==
    /\ BotAlive
    /\ runPc = "polling"
    /\ IF outcome \in ErrorClasses
       THEN /\ errors' = errors \cup {outcome}
            /\ runPc' = "sleeping"
            /\ slept' = Append(slept, retry_delay)
            /\ UNCHANGED threads
       ELSE /\ runPc' = "done"
            /\ threads' = WriteFile(threads, "bot", "ended")
            /\ UNCHANGED <<slept, errors>>
    /\ UNCHANGED <<textVars, voiceVars, text, toolCalls, digest, textRuns,
                   processed_items, mainPc, attempt, retry_delay>>

\* An attempt ends.  Normal return and KeyboardInterrupt break out of the
\* loop; an error before the last attempt goes to time.sleep(retry_delay);
\* an error in the last attempt is raised again and ends the thread.
AttemptEnds(outcome) ==
    /\ BotAlive
    /\ runPc = "polling"
    /\ IF outcome \in ErrorClasses
       THEN /\ errors' = errors \cup {outcome}
            /\ IF attempt < max_retries - 1
               THEN /\ runPc' = "sleeping"
                    /\ slept' = Append(slept, retry_delay)
                    /\ UNCHANGED threads
               ELSE /\ runPc' = "raised"
                    /\ threads' = WriteFile(threads, "bot", "ended")
                    /\ UNCHANGED slept
       ELSE /\ runPc' = "done"
            /\ threads' = WriteFile(threads, "bot", "ended")
            /\ UNCHANGED <<slept, errors>>
    /\ UNCHANGED <<textVars, voiceVars, text, toolCalls, digest, textRuns,
                   processed_items, mainPc, attempt, retry_delay>>

\* time.sleep returns: the delay is doubled up to max_delay and the for loop
\* goes to its next iteration, or ends when the range is exhausted.
RunRetry ==
    /\ BotAlive
    /\ runPc = "sleeping"
    /\ retry_delay' = NextDelay(retry_delay)
    /\ IF attempt + 1 < max_retries
       THEN /\ attempt' = attempt + 1
            /\ runPc' = "polling"
            /\ UNCHANGED threads
       ELSE /\ runPc' = "done"
            /\ threads' = WriteFile(threads, "bot", "ended")
            /\ UNCHANGED attempt
    /\ UNCHANGED <<textVars, voiceVars, text, toolCalls, digest, textRuns,
                   processed_items, mainPc, slept, errors>>

\* ------------------------------------------------------------ specification
InitWorkers ==
    /\ clock = 1
    /\ captured = 0
    /\ textNames = <<>>
    /\ botWrite = None
    /\ incoming = NoFiles
    /\ processed = NoFiles
    /\ archiveTexts = NoFiles
    /\ archive = NoFiles
    /\ ready = NoFiles
    /\ vault = NoFiles
    /\ archived = NoFiles
    /\ textPc = "offline"
    /\ textTodo = {}
    /\ textEvents = {}
    /\ textCur = None
    /\ textHandled = {}
    /\ textLog = None
    /\ redelivered = 0
    /\ papPc = "idle"
    /\ papTodo = {}
    /\ papRuns = 0
    /\ pubPc = "offline"
    /\ pubEvents = {}
    /\ pubCur = None
    /\ pubLog = None
    /\ pubHandled = {}
    /\ voiceCaptured = 0
    /\ voiceNames = <<>>
    /\ botVoice = None
    /\ voices = NoFiles
    /\ archiveVoices = NoFiles
    /\ voicePc = "offline"
    /\ voiceEvents = {}
    /\ voiceCur = None
    /\ voiceHandled = {}
    /\ voiceRaised = {}
    /\ trLog = {}
    /\ toolCalls = 0
    /\ digest = NoFiles
    /\ textRuns = 0
    /\ processed_items = [success |-> 0, error |-> 0]
    /\ mainPc = "start"
    /\ threads = NoFiles
    /\ runPc = "idle"
    /\ attempt = 0
    /\ retry_delay = initial_delay
    /\ slept = <<>>
    /\ errors = {}

\* The pipeline runs ingest messages by their kind; no text is singled out.
Init == InitWorkers /\ text = <<>>

AllNames == IngestKinds \X (1..MaxClock)
ReadyNames == IngestKinds \X (1..MaxClock)

Next ==
    \/ Tick
    \/ \E kind \in IngestKinds : HandleTextOpen(kind)
    \/ HandleTextDump
    \/ TextStart
    \/ \E name \in AllNames : TextDrain(name)
    \/ TextStartWatch
    \/ \E name \in AllNames : TextOnCreated(name)
    \/ \E name \in AllNames : TextRedeliver(name)
    \/ \E fails \in BOOLEAN : ArchiveTextFile(fails)
    \/ PapStart
    \/ \E name \in AllNames : PapItem(name)
    \/ PapNextDir
    \/ PapReturn
    \/ PubStart
    \/ \E name \in ReadyNames : MoveToObsidian(name)
    \/ \E name \in ReadyNames : PubRedeliver(name)
    \/ \E fails \in BOOLEAN : ArchiveReadyFile(fails)

Spec == Init /\ [][Next]_vars

\* The voice path: Ingestor, Voice Pipeline, Transcription Adapter.
NextVoice ==
    \/ Tick
    \/ HandleVoiceDownload
    \/ HandleVoiceMetaOpen
    \/ HandleVoiceMetaDump
    \/ \E prerequisites \in BOOLEAN : VoiceStart(prerequisites)
    \/ \E sec \in 1..MaxClock : VoiceOnCreated(sec)
    \/ \E sec \in 1..MaxClock : VoiceRedeliver(sec)
    \/ \E ok \in BOOLEAN : ConvertOggToWav(ok)
    \/ \E exit \in {0, 1}, output \in Transcripts \cup {"None"} : RunWhisper(exit, output)
    \/ ReadTranscription
    \/ SaveTranscription
    \/ \E fails \in BOOLEAN : ArchiveVoiceFile(fails)
    \/ \E fails \in BOOLEAN : ArchiveVoiceMeta(fails)

SpecVoice == Init /\ [][NextVoice]_vars

\* The Ingestor alone, receiving messages of one text, any of Texts.
InitIngest == InitWorkers /\ text \in Texts

NextIngest ==
    \/ Tick
    \/ HandleTextOpen(MessageType(text))
    \/ HandleTextDump

SpecIngest == InitIngest /\ [][NextIngest]_vars

\* The Vault Publisher with documents saved by process_for_obsidian.
ToolReadyNames == FormatKinds \X (1..MaxClock)

NextVault ==
    \/ Tick
    \/ \E content \in 1..MaxCaptures, contentType \in FormatKinds :
            ProcessForObsidian(content, contentType, "analysis")
    \/ PubStart
    \/ \E name \in ToolReadyNames : MoveToObsidian(name)
    \/ \E name \in ToolReadyNames : MoveToObsidianRaises(name)
    \/ \E fails \in BOOLEAN : ArchiveReadyFile(fails)
    \/ CreateDailyNote

SpecVault == Init /\ [][NextVault]_vars

\* The threads main starts (bot, voice, text and Obsidian workers), with
\* process_for_obsidian giving the Obsidian worker documents to publish, in
\* runs where no rename and no conversion fails.
NextMain ==
    \/ \E kind \in IngestKinds : HandleTextOpen(kind)
    \/ HandleTextDump
    \/ HandleVoiceDownload
    \/ HandleVoiceMetaOpen
    \/ HandleVoiceMetaDump
    \/ TextStart
    \/ \E name \in AllNames : TextDrain(name)
    \/ TextStartWatch
    \/ \E name \in AllNames : TextOnCreated(name)
    \/ ArchiveTextFile(FALSE)
    \/ \E prerequisites \in BOOLEAN : VoiceStart(prerequisites)
    \/ \E sec \in 1..MaxClock : VoiceOnCreated(sec)
    \/ \E sec \in 1..MaxClock : VoiceRedeliver(sec)
    \/ ConvertOggToWav(TRUE)
    \/ \E exit \in {0, 1} : RunWhisper(exit, "words")
    \/ ReadTranscription
    \/ SaveTranscription
    \/ ArchiveVoiceFile(FALSE)
    \/ ArchiveVoiceMeta(FALSE)
    \/ PubStart
    \/ ProcessForObsidian(1, "idea", "analysis")
    \/ \E name \in ReadyNames : MoveToObsidian(name)
    \/ ArchiveReadyFile(FALSE)

SpecMain == Init /\ [][NextMain]_vars

\* The Text Pipeline with its service started again and again, and
\* process_all_pending working on the same directories.
NextRerun ==
    \/ Tick
    \/ \E kind \in IngestKinds : HandleTextOpen(kind)
    \/ HandleTextDump
    \/ TextStart
    \/ \E name \in AllNames : TextDrain(name)
    \/ TextStartWatch
    \/ \E name \in AllNames : TextOnCreated(name)
    \/ \E fails \in BOOLEAN : ArchiveTextFile(fails)
    \/ TextRestart
    \/ PapStart
    \/ \E name \in AllNames : PapItem(name)
    \/ PapNextDir
    \/ PapReturn

SpecRerun == Init /\ [][NextRerun]_vars

\* The MCP tools process_all_pending and process_for_obsidian on the records
\* the bot writes, with the Vault Publisher taking the documents.
StageNames == {"incoming", "processed"}

NextTool ==
    \/ Tick
    \/ \E kind \in IngestKinds : HandleTextOpen(kind)
    \/ HandleTextDump
    \/ PapStart
    \/ \E name \in AllNames : PapItem(name)
    \/ \E name \in AllNames : PapItemSaveRaises(name)
    \/ \E name \in AllNames : PapItemMoveFails(name)
    \/ PapNextDir
    \/ PapReturn
    \/ \E dirName \in StageNames, name \in AllNames :
            ProcessForObsidianSource(1, "idea", "analysis", dirName, name)
    \/ ProcessForObsidianRaises
    \/ PubStart
    \/ \E name \in ReadyNames : MoveToObsidian(name)
    \/ ArchiveReadyFile(FALSE)

SpecTool == Init /\ [][NextTool]_vars

\* main, the threads it starts, and the reconnect loop of the bot thread.
NextProcess ==
    \/ MainStartThread
    \/ MainInterrupt
    \/ ProcessExit
    \/ VoiceThreadEnds
    \/ RunStart
    \/ \E outcome \in Outcomes : AttemptEnds(outcome)
    \/ RunRetry

SpecProcess == Init /\ [][NextProcess]_vars

\* ------------------------------------------------------------ properties
\* The captures whose handle_text call has written its record.
AcceptedTexts == {id \in 1..captured : botWrite = None \/ botWrite[2].content # id}

\* The JSON records of a directory, and the rendered documents of one.
Records(dir) == {dir[n] : n \in {m \in DOMAIN dir : Parses(dir[m])}}
Documents(dir) == {dir[n] : n \in DOMAIN dir}

\* The body of text capture `id` is held by a record or a rendered document.
TextPresent(id) ==
    \/ \E r \in Records(incoming) \cup Records(processed) \cup Records(archiveTexts)
                \cup Records(archive) :
          r.type \in TextKinds /\ r.content = id
    \/ \E d \in Documents(ready) \cup Documents(vault) \cup Documents(archived) :
          d.type # "voice-note" /\ d.body = id

\* C1: every capture handle_text has accepted is present in a stage directory
\* (incoming, processed), in ready, in the vault or in an archive directory.
NoLoss == \A id \in AcceptedTexts : TextPresent(id)

\* The record of one capture is in incoming and in processed at once.
InBothStages(name) ==
    /\ Exists(incoming, name) /\ Parses(incoming[name])
    /\ Exists(processed, name)
    /\ processed[name].content = incoming[name].content

\* C2: no record is in two stage directories at once: the file
\* process_text_file transitions is never both in incoming and in processed.
AtMostOnePhysicalCopy == \A name \in AllNames : ~InBothStages(name)

\* The file names under which rendered documents of capture `id` exist, in
\* ready or filed in the vault.
RenderedNames(id) ==
    {n \in DOMAIN ready : ready[n].body = id}
        \cup {n[2] : n \in {m \in DOMAIN vault : vault[m].body = id}}

\* C3: with the Text Pipeline and process_all_pending interleaved, one
\* ingested record gives at most one rendered document.
NoDuplicateRendering == \A id \in 1..captured : Cardinality(RenderedNames(id)) <= 1

\* C5: distinct captures receive distinct filenames, text and voice alike.
UniqueFilenames ==
    /\ \A i, j \in 1..Len(textNames) : i # j => textNames[i] # textNames[j]
    /\ \A i, j \in 1..Len(voiceNames) : i # j => voiceNames[i] # voiceNames[j]

\* The TextProcessor worker watches and has nothing left to do.
TextQuiescent == textPc = "watching" /\ textEvents = {} /\ textCur = None

\* C6: every record in incoming is eventually passed to process_text_file:
\* once the worker watches with no event pending, it has no way left to learn
\* of a record, so by then every record in incoming has been passed.
DrainThenWatchLosesNothing ==
    TextQuiescent => \A name \in DOMAIN incoming : name \in textHandled

\* The VoiceProcessor (ObsidianFileManager) worker watches and has nothing
\* left to do.
VoiceQuiescent == voicePc = "watching" /\ voiceEvents = {} /\ voiceCur = None
PubQuiescent == pubPc = "watching" /\ pubEvents = {} /\ pubCur = None

\* The audio files in voices.
AudioFiles == {n \in DOMAIN voices : n[3] = "ogg"}

\* C7: the Voice Pipeline and the Vault Publisher sweep their directory on
\* start: once such a worker watches with no event pending, every audio file
\* in voices has been passed to process_voice_file, and every document in
\* ready has been passed to move_to_obsidian.
WorkersDrainOnStart ==
    /\ VoiceQuiescent => \A name \in AudioFiles : name \in voiceHandled
    /\ PubQuiescent => \A name \in DOMAIN ready : name \in pubHandled

\* C8: no exception leaves a stage handler's on_created, and the watcher
\* goes on handling.
NoExceptionEscapes == voiceRaised = {} /\ voicePc # "dead"

\* The causes of a transcription failure.
FailureCauses == {"conversion_failed", "engine_failed", "no_output"}

\* C10: transcribe never raises for an external-tool failure, and the values
\* it returns for the three failures differ from a text and from each other.
TypedTranscriptionFailure ==
    \A a, b \in trLog :
        /\ a[1] \in FailureCauses => a[2] # "raised"
        /\ a[1] # b[1] /\ b[1] \in FailureCauses => a[2] # b[2]

\* The content directories and the vault.
allFiles == <<incoming, processed, archiveTexts, archive, ready, vault, archived>>

\* An earlier process_text_file call has processed and archived `name`.
TextArchivedBefore(name) ==
    /\ name \in textHandled
    /\ ~Exists(incoming, name)
    /\ \E a \in DOMAIN archiveTexts : a[1] = name[1] /\ a[2] = name[2]

\* An earlier move_to_obsidian call has filed and archived `name`.
PublishedBefore(name) ==
    /\ ~Exists(ready, name)
    /\ Exists(vault, <<TargetFolder(name), name>>)
    /\ Exists(archived, name)

\* C4: a second call of process_text_file (move_to_obsidian) on a path an
\* earlier call has processed and archived changes no directory, and the
\* handler returns to its watcher.
IdempotentReprocessing ==
    [][/\ \A name \in AllNames :
            TextArchivedBefore(name) /\ TextOnCreated(name)
                => UNCHANGED allFiles /\ textCur' = None /\ textPc' = "watching"
       /\ \A name \in ReadyNames :
            PublishedBefore(name) /\ MoveToObsidian(name)
                => UNCHANGED allFiles /\ pubCur' = None /\ pubPc' = "watching"]_vars

\* The only capture was processed and archived, and a later call found its
\* path gone.
ReprocessedArchivedText ==
    /\ captured = 1
    /\ redelivered = 1
    /\ textLog # None
    /\ textLog[2] = "failed"
    /\ TextArchivedBefore(textLog[1])
    /\ Exists(processed, textLog[1])

\* C9: process_text_file on a record that does not parse logs the failure,
\* leaves incoming, processed and the archive as they are, and leaves the
\* worker where it goes on with the rest of the sweep and with later events.
MalformedRecordLeftInPlace ==
    [][\A name \in AllNames :
          /\ Exists(incoming, name)
          /\ ~Parses(incoming[name])
          /\ TextDrain(name) \/ TextOnCreated(name)
          => /\ UNCHANGED <<incoming, processed, archiveTexts, archive>>
             /\ textLog' = <<name, "failed">>
             /\ textCur' = None
             /\ textPc' = textPc
             /\ textTodo' = textTodo \ {name}
             /\ textEvents' = textEvents \ {name}]_vars

\* A sweep has just failed on an unparseable record, which is still in
\* incoming, and has a further record to handle.
MalformedRecordInSweep ==
    /\ textPc = "drain"
    /\ textLog # None
    /\ textLog[2] = "failed"
    /\ Exists(incoming, textLog[1])
    /\ ~Parses(incoming[textLog[1]])
    /\ \E other \in textTodo : Exists(incoming, other) /\ Parses(incoming[other])

\* The audio asset and the metadata of second `sec` are in dir (the voice
\* archive), under some archive suffix.
VoiceArchived(dir, sec) ==
    /\ \E a \in DOMAIN dir : a[2] = sec /\ a[4] = "ogg"
    /\ \E a \in DOMAIN dir : a[2] = sec /\ a[4] = "json"

\* transcribe has returned a transcript (not None) to process_voice_file.
TranscriptReturned == voiceCur # None /\ voiceCur.transcription # "None"

\* C11: when transcribe has read the engine's output, whatever the trimmed
\* transcript is (the empty one included), process_voice_file writes the
\* voice_transcription record with the transcript, the capture timestamp and
\* a processing timestamp, and when it is done the audio and its metadata are
\* in the voice archive and no longer in voices.
VoiceSuccessPath ==
    [][/\ TranscriptReturned /\ voiceCur.step = "returned" /\ SaveTranscription
          => LET out == VoiceOutputName(voiceCur.sec)
             IN /\ Exists(processed', out)
                /\ processed'[out].type = "voice_transcription"
                /\ processed'[out].transcription = voiceCur.transcription
                /\ processed'[out].timestamp = voiceCur.metadata.timestamp
                /\ processed'[out].processed_at = clock
       /\ TranscriptReturned /\ voiceCur' = None
          => /\ VoiceArchived(archiveVoices', voiceCur.sec)
             /\ ~Exists(voices', Ogg(voiceCur.sec))
             /\ ~Exists(voices', Meta(voiceCur.sec))]_vars

\* The file `name` is the same in voices before and after the step.
SameInVoices(name) ==
    /\ Exists(voices, name) <=> Exists(voices', name)
    /\ Exists(voices, name) => voices'[name] = voices[name]

\* C12: when transcribe returns None, process_voice_file writes no processed
\* record and no archive entry, leaves the audio and its metadata in voices as
\* they are (as transcribe did before it), queues no retry and returns.
VoiceFailurePath ==
    [][/\ voiceCur # None /\ voiceCur.step = "returned"
            /\ voiceCur.transcription = "None" /\ SaveTranscription
          => /\ UNCHANGED <<processed, archiveVoices, voices, voiceEvents, voicePc>>
             /\ voiceCur' = None
       /\ voiceCur # None /\ voiceCur.step \in {"convert", "engine", "read"}
            /\ voiceCur' # voiceCur
          => /\ SameInVoices(Ogg(voiceCur.sec))
             /\ SameInVoices(Meta(voiceCur.sec))
             /\ UNCHANGED <<processed, archiveVoices>>]_vars

\* A handling ended on an engine failure: the audio and its metadata are in
\* voices, nothing was written to processed or to the archive, and the worker
\* watches with nothing queued for the file.
VoiceFailureLeftInPlace ==
    /\ voiceCur = None
    /\ voicePc = "watching"
    /\ trLog = {<<"engine_failed", "None">>}
    /\ processed = NoFiles
    /\ archiveVoices = NoFiles
    /\ \E sec \in 1..MaxClock :
          /\ Ogg(sec) \in voiceHandled
          /\ Ogg(sec) \notin voiceEvents
          /\ Exists(voices, Ogg(sec))
          /\ Exists(voices, Meta(sec))
          /\ voices[Meta(sec)] = VoiceMetadata(sec)

\* The kind the classification policy gives a text, by first match.
ExpectedKind(t) ==
    CASE StartsWith(t, "TODO:") \/ StartsWith(t, "Task:") -> "todo"
      [] ~(StartsWith(t, "TODO:") \/ StartsWith(t, "Task:"))
            /\ (StartsWith(t, "IDEA:") \/ Contains(t, "idea glyph")) -> "idea"
      [] ~(StartsWith(t, "TODO:") \/ StartsWith(t, "Task:"))
            /\ ~(StartsWith(t, "IDEA:") \/ Contains(t, "idea glyph"))
            /\ (StartsWith(t, "http") \/ Contains(t, "www.")) -> "link"
      [] OTHER -> "note"

\* 'TODO: buy milk', 'IDEA: rewrite in Rust', 'https://example.com' and
\* 'just a thought', as pieces.
ExampleKinds ==
    /\ MessageType(<<"TODO:", "x">>) = "todo"
    /\ MessageType(<<"IDEA:", "x">>) = "idea"
    /\ MessageType(<<"http", "x">>) = "link"
    /\ MessageType(<<"x">>) = "note"

\* C13: handle_text gives every text the kind of the first matching rule
\* (TODO:/Task: prefix, then IDEA: prefix or idea glyph, then http prefix or
\* www., else note), and the record's type field and the filename prefix are
\* that kind.
ClassificationPolicy ==
    text # <<>> =>
        /\ ExampleKinds
        /\ \A i \in 1..Len(textNames) : textNames[i][1] = ExpectedKind(text)
        /\ botWrite # None => botWrite[2].type = ExpectedKind(text)
        /\ \A n \in DOMAIN incoming :
              /\ n[1] = ExpectedKind(text)
              /\ Parses(incoming[n]) => incoming[n].type = ExpectedKind(text)

\* A text that starts with TODO: and holds the idea glyph was saved as a todo.
ClassifiedByFirstMatch ==
    /\ StartsWith(text, "TODO:")
    /\ Contains(text, "idea glyph")
    /\ \E n \in DOMAIN incoming :
          n[1] = "todo" /\ Parses(incoming[n]) /\ incoming[n].type = "todo"

\* The `type:` headers of the formatter's four templates.
TemplateTypes == {"todo", "voice-note", "idea", "note"}

\* C14: format_content_for_obsidian returns a document, without raising, for
\* todo, idea, link, note, voice and for a content type it does not know; the
\* document holds the header, the content and the context, and a type without
\* a template of its own gets the generic note template.
FormatterTotality ==
    \A n \in DOMAIN ready :
        /\ n[1] \in FormatKinds
        /\ ready[n].type \in TemplateTypes
        /\ {"type", "created", "body", "context"} \subseteq DOMAIN ready[n]
        /\ n[1] \notin {"todo", "idea", "voice_transcription"} => ready[n].type = "note"
        /\ n[1] \in {"todo", "idea"} => ready[n].type = n[1]

\* Documents of an unknown content type and of the kind link were rendered,
\* both with the note template.
UnknownKindRendered ==
    /\ \E sec \in 1..MaxClock :
          Exists(ready, <<"other", sec>>) /\ ready[<<"other", sec>>].type = "note"
    /\ \E sec \in 1..MaxClock :
          Exists(ready, <<"link", sec>>) /\ ready[<<"link", sec>>].type = "note"

\* C16: move_to_obsidian files every document of ready in the folder its
\* filename prefix selects, and that folder is one setup_vault_structure has
\* created: no document stays unpublished for want of its folder.
VaultRoutingNeverDrops ==
    [][\A name \in ToolReadyNames :
          Exists(ready, name) /\ MoveToObsidian(name)
              => /\ TargetFolder(name) \in VaultFolders
                 /\ Exists(vault', <<TargetFolder(name), name>>)]_vars

\* The copy of `name` into the vault fails: shutil.copy2 raises on a vault
\* that cannot be written or on a target folder that does not exist.
CopyFails(name) ==
    \/ MoveToObsidianRaises(name)
    \/ Exists(ready, name) /\ TargetFolder(name) \notin VaultFolders
           /\ MoveToObsidian(name)

\* C17: when the copy into the vault fails, move_to_obsidian logs the
\* failure, leaves the document in ready, archives nothing, and returns to
\* the watcher without raising.
DestinationWriteFailure ==
    [][\A name \in ToolReadyNames :
          CopyFails(name)
              => /\ UNCHANGED <<ready, archived, vault>>
                 /\ pubLog' = <<name, "failed">>
                 /\ pubCur' = None
                 /\ pubPc' = "watching"]_vars

\* The last move_to_obsidian call failed on a document that is still in
\* ready, is not in the local archive nor in the vault, and the worker watches.
FailedCopyRetained ==
    /\ pubLog # None
    /\ pubLog[2] = "failed"
    /\ Exists(ready, pubLog[1])
    /\ ~Exists(archived, pubLog[1])
    /\ ~Exists(vault, <<TargetFolder(pubLog[1]), pubLog[1]>>)
    /\ pubCur = None
    /\ pubPc = "watching"

\* s is a prefix of t.
IsPrefix(s, t) == Len(s) <= Len(t) /\ \A i \in 1..Len(s) : s[i] = t[i]

\* C19: create_daily_note only appends: a day's note, once there, stays and
\* what it held is a prefix of what it holds after any step; a call creates
\* today's note or appends one section to it, repeated or not, and touches
\* the note of no other day.
DigestAppendOnly ==
    [][/\ \A day \in DOMAIN digest :
            Exists(digest', day) /\ IsPrefix(digest[day], digest'[day])
       /\ CreateDailyNote
            => LET today == DayOf(clock)
               IN /\ Exists(digest', today)
                  /\ Exists(digest, today)
                        => digest'[today]
                             = Append(digest[today], TelegramSection(today))
                  /\ \A day \in DOMAIN digest' \ {today} :
                        Exists(digest, day) /\ digest'[day] = digest[day]]_vars

\* A day's note holds its heading and two equal sections from two calls, and
\* a second day has a note of its own.
DigestAppendedTwice ==
    /\ \E day \in DOMAIN digest :
          /\ Len(digest[day]) >= 3
          /\ digest[day][2] = digest[day][3]
    /\ Cardinality(DOMAIN digest) = 2

\* The files a step adds to a directory.
Added(before, after) == DOMAIN after \ DOMAIN before

\* What holds of the directories at every moment of a run that ingests ideas.
IdeaStages ==
    /\ \A n \in DOMAIN incoming :
          n[1] = "idea" /\ (Parses(incoming[n]) => incoming[n].type = "idea")
    /\ \A n \in DOMAIN processed :
          /\ processed[n].type = "idea"
          /\ processed[n].processed_at >= processed[n].timestamp
    /\ \A n \in DOMAIN ready : n[1] = "idea" /\ ready[n].type = "idea"
    /\ \A v \in DOMAIN vault :
          /\ v[1] = "Ideas"
          /\ vault[v].type = "idea"
          /\ Exists(ready, v[2]) \/ Exists(archived, v[2])
    /\ \A n \in DOMAIN archived : Exists(vault, <<"Ideas", n>>)

\* The order of the stages: a step adds a file to a stage only from the
\* stage before it.
IdeaStageOrder ==
    /\ \A n \in Added(processed, processed') :
          /\ Exists(incoming, n) /\ Parses(incoming[n])
          /\ processed'[n].content = incoming[n].content
    /\ \A n \in Added(ready, ready') :
          \E r \in Records(incoming) \cup Records(processed) :
              r.type = "idea" /\ ready'[n].body = r.content
    /\ \A v \in Added(vault, vault') :
          Exists(ready, v[2]) /\ vault'[v] = ready[v[2]]
    /\ \A n \in Added(archived, archived') :
          /\ Exists(ready, n) /\ ~Exists(ready', n)
          /\ Exists(vault, <<"Ideas", n>>)

\* C15: an ingested idea is a record of kind idea in incoming; the Text
\* Pipeline puts it in processed with processed_at >= its timestamp; the
\* formatting trigger renders a ready document with `type: idea`; the Vault
\* Publisher files that document under Ideas and then archives the ready
\* copy; each stage is fed from the one before it.
EndToEndIdea == []IdeaStages /\ [][IdeaStageOrder]_vars

\* The run has ended: the one idea was processed by the Text Pipeline,
\* rendered by the formatting trigger and published; its document is under
\* Ideas and in the local archive, and the stage directories are empty.
EndToEndDone ==
    /\ captured = 1
    /\ botWrite = None
    /\ incoming = NoFiles /\ processed = NoFiles /\ ready = NoFiles
    /\ \E a \in DOMAIN archiveTexts : archiveTexts[a].processed_at >= archiveTexts[a].timestamp
    /\ \E a \in DOMAIN archive : "processed_at" \in DOMAIN archive[a]
    /\ \E v \in DOMAIN vault :
          /\ v[1] = "Ideas" /\ vault[v].type = "idea" /\ vault[v].body = 1
          /\ Exists(archived, v[2])
    /\ pubLog = <<CHOOSE n \in DOMAIN archived : TRUE, "archived">>

\* C18: stage handlers only add fields: the processed copy and the archived
\* copy of a text record hold every field of the record in incoming, and the
\* archived voice metadata holds every field of the metadata file in voices
\* that _archive_voice_files moves, whenever the Ingestor wrote it.
AdditiveFields ==
    [][/\ \A n \in Added(processed, processed') :
            n \in AllNames /\ Exists(incoming, n) /\ Parses(incoming[n])
                => DOMAIN incoming[n] \subseteq DOMAIN processed'[n]
       /\ \A a \in Added(archiveTexts, archiveTexts') :
            Parses(incoming[<<a[1], a[2]>>])
                => DOMAIN incoming[<<a[1], a[2]>>] \subseteq DOMAIN archiveTexts'[a]
       /\ \A a \in Added(archiveVoices, archiveVoices') :
            a[4] = "json" /\ Exists(voices, Meta(a[2])) /\ Parses(voices[Meta(a[2])])
                => DOMAIN voices[Meta(a[2])] \subseteq DOMAIN archiveVoices'[a]]_vars

AudioArchivedAndGone(sec) ==
    /\ ~Exists(voices, Ogg(sec))
    /\ \E a \in DOMAIN archiveVoices : a[2] = sec /\ a[4] = "ogg"

\* C22: process_voice_file on an audio path that was archived and removed
\* returns without raising, writes no processed record and no archive entry,
\* and the worker goes on watching.
VoiceSourceGoneIsNoOp ==
    [][voiceCur # None /\ voiceCur.step = "convert"
            /\ AudioArchivedAndGone(voiceCur.sec) /\ voiceCur' # voiceCur
          => /\ voiceRaised' = voiceRaised
             /\ voicePc' = "watching"
             /\ UNCHANGED <<processed, archiveVoices>>]_vars

\* C23: a record reaches ready through processed only: when the formatting
\* trigger renders a record, it has taken it from processed, not from
\* incoming.
StageOrder ==
    [][\A name \in AllNames :
          Exists(PapDir, name) /\ Parses(PapDir[name]) /\ PapItem(name)
              => papPc = "processed"]_vars

\* C24: a successful process_text_file first writes the copy with
\* processed_at to processed under the original filename, the original still
\* being in incoming; then the original leaves incoming for archive/texts,
\* under a timestamp-qualified name that is not the processed filename.  The
\* original leaves incoming only in a call that has written the copy, and
\* the copy stays in processed until the formatting trigger takes it.
TextPostcondition ==
    [][\A name \in AllNames :
          /\ (TextDrain(name) \/ TextOnCreated(name)) /\ textLog' = <<name, "processed">>
                => /\ Exists(processed', name)
                   /\ "processed_at" \in DOMAIN processed'[name]
                   /\ processed'[name].content = incoming[name].content
                   /\ incoming' = incoming
          /\ (\E fails \in BOOLEAN : ArchiveTextFile(fails))
                /\ Exists(incoming, name) /\ ~Exists(incoming', name)
                => LET dest == ArchivedTextName(name, clock)
                   IN /\ textCur # None
                      /\ textCur[1] = name
                      /\ textLog' = <<name, "archived">>
                      /\ Exists(archiveTexts', dest)
                      /\ dest # name
                      /\ ~Exists(processed', dest)
                      /\ UNCHANGED processed
                      /\ papRuns = 0 => Exists(processed', name)]_vars

\* process_text_file has succeeded on a record: it is gone from incoming, its
\* copy with processed_at is in processed, and archive/texts holds it.
TextProcessedAndArchived ==
    /\ textLog # None
    /\ textLog[2] = "archived"
    /\ textCur = None
    /\ ~Exists(incoming, textLog[1])
    /\ Exists(processed, textLog[1])
    /\ "processed_at" \in DOMAIN processed[textLog[1]]
    /\ \E a \in DOMAIN archiveTexts :
          a[1] = textLog[1][1] /\ a[2] = textLog[1][2] /\ a # textLog[1]

\* C25: the audio and its metadata are archived together: never is the audio
\* of a capture in the voice archive while its metadata is in voices, nor the
\* metadata in the archive while the audio is in voices.
VoiceArchiveAtomic ==
    \A sec \in 1..MaxClock :
        /\ ~(/\ \E a \in DOMAIN archiveVoices : a[2] = sec /\ a[4] = "ogg"
              /\ Exists(voices, Meta(sec)))
        /\ ~(/\ \E a \in DOMAIN archiveVoices : a[2] = sec /\ a[4] = "json"
              /\ Exists(voices, Ogg(sec)))

\* C26: handle_voice creates the metadata file after the download, and
\* process_voice_file, called for a creation event, finds the complete
\* metadata the Ingestor wrote for the audio.
CompletePairs ==
    [][\A sec \in 1..MaxClock :
          /\ Meta(sec) \in Added(voices, voices')
                => botVoice = <<sec, "open">>
          /\ Exists(voices, Ogg(sec)) /\ VoiceOnCreated(sec)
                => /\ Exists(voices, Meta(sec))
                   /\ voices[Meta(sec)] = VoiceMetadata(sec)]_vars

\* C27: the timestamp of the processed and of the archived copy of a text
\* record, and of a processed voice_transcription record, is the capture time
\* the Ingestor wrote (the second in the capture's filename).
CaptureTimeImmutable ==
    /\ \A n \in DOMAIN processed : processed[n].timestamp = n[2]
    /\ \A a \in DOMAIN archiveTexts : archiveTexts[a].timestamp = a[2]

\* C28: move_to_obsidian copies into the vault folder first, the ready copy
\* staying where it is, and moves the ready copy to the local archive
\* afterwards: a document leaves ready only when it is in the vault, and when
\* the call is done it is in the vault folder and in the local archive and
\* not in ready.
PublisherOrdering ==
    [][\A name \in ToolReadyNames :
          LET target == <<TargetFolder(name), name>>
          IN /\ MoveToObsidian(name) /\ pubLog' = <<name, "copied">>
                   => /\ Exists(vault', target)
                      /\ vault'[target] = ready[name]
                      /\ UNCHANGED <<ready, archived>>
             /\ Exists(ready, name) /\ ~Exists(ready', name)
                   => /\ pubCur = name
                      /\ Exists(vault, target)
                      /\ Exists(vault', target)
                      /\ Exists(archived', name)
                      /\ archived'[name] = ready[name]
                      /\ pubLog' = <<name, "archived">>]_vars

\* A publication is complete: the document is in its vault folder and in the
\* local archive, and ready no longer holds it.
PublicationComplete ==
    /\ pubLog # None
    /\ pubLog[2] = "archived"
    /\ pubCur = None
    /\ Exists(vault, <<TargetFolder(pubLog[1]), pubLog[1]>>)
    /\ Exists(archived, pubLog[1])
    /\ ~Exists(ready, pubLog[1])

\* C29: format_content_for_obsidian depends on the content type, the content
\* and the context only: two documents rendered from equal arguments are
\* equal, whenever they were rendered.
FormatterDeterminism ==
    \A n, m \in DOMAIN ready :
        /\ n[1] = m[1]
        /\ ready[n].body = ready[m].body
        /\ ready[n].context = ready[m].context
        => ready[n] = ready[m]

\* Every step the bot, the Text Pipeline worker and the Vault Publisher
\* worker have in hand, going by their own state alone, can be taken.
OtherWorkersCanStep ==
    /\ \A kind \in IngestKinds :
          botWrite = None /\ captured < MaxCaptures => ENABLED HandleTextOpen(kind)
    /\ botWrite # None => ENABLED HandleTextDump
    /\ botVoice = None /\ voiceCaptured < MaxCaptures => ENABLED HandleVoiceDownload
    /\ botVoice # None => ENABLED (HandleVoiceMetaOpen \/ HandleVoiceMetaDump)
    /\ textPc = "offline" => ENABLED TextStart
    /\ \A name \in AllNames :
          /\ textPc = "drain" /\ name \in textTodo /\ textCur = None
                => ENABLED TextDrain(name)
          /\ textPc = "watching" /\ name \in textEvents /\ textCur = None
                => ENABLED TextOnCreated(name)
    /\ textPc = "drain" /\ textTodo = {} /\ textCur = None => ENABLED TextStartWatch
    /\ textCur # None => ENABLED ArchiveTextFile(FALSE)
    /\ pubPc = "offline" => ENABLED PubStart
    /\ \A name \in ReadyNames :
          pubPc = "watching" /\ name \in pubEvents /\ pubCur = None
              => ENABLED MoveToObsidian(name)
    /\ pubCur # None => ENABLED ArchiveReadyFile(FALSE)

\* C21: when WhisperTranscriber's construction raises, the voice worker never
\* enters its watch loop and handles no audio, then or later, while every
\* step of the bot, the Text Pipeline worker and the Vault Publisher worker
\* can still be taken.
MissingPrerequisiteIsLocal ==
    /\ [](voicePc = "failed"
            => /\ voiceHandled = {}
               /\ voiceCur = None
               /\ voiceEvents = {}
               /\ \A sec \in 1..MaxClock : ~ENABLED VoiceOnCreated(sec)
               /\ OtherWorkersCanStep)
    /\ [][voicePc = "failed" => voicePc' = "failed"]_vars

\* The voice worker failed at construction and an audio file waits in voices,
\* while a text record was processed and archived and a document published.
OthersRanWithoutVoice ==
    /\ voicePc = "failed"
    /\ \E sec \in 1..MaxClock : Exists(voices, Ogg(sec))
    /\ textLog # None
    /\ textLog[2] = "archived"
    /\ pubLog # None
    /\ pubLog[2] = "archived"

\* process_voice_file is inside transcribe, in the conversion or the engine
\* call.
VoiceBlocked == voiceCur # None /\ voiceCur.step \in {"convert", "engine"}

\* C30: while the voice worker is inside a conversion or engine call, every
\* step of the bot, the Text Pipeline worker and the Vault Publisher worker
\* can be taken as it could otherwise; only the voice worker's next event
\* waits.
WorkerIndependence ==
    VoiceBlocked
        => /\ OtherWorkersCanStep
           /\ \A sec \in 1..MaxClock : ~ENABLED VoiceOnCreated(sec)

\* The voice worker is inside the engine call with a further audio event
\* queued, while the bot is writing a text record, the text worker has a
\* record in hand and the publisher a document to publish.
OthersBusyWhileVoiceBlocked ==
    /\ VoiceBlocked
    /\ voiceEvents # {}
    /\ botWrite # None
    /\ textCur # None
    /\ pubPc = "watching"
    /\ pubEvents # {}

\* The files of the text path: incoming, processed and the two archives.
textFiles == <<incoming, processed, archiveTexts, archive>>

\* C31: once a text record has been archived and its file is absent from
\* incoming, a re-run of process_existing_files does not list it, and no step
\* of a sweep over an incoming directory that holds nothing, or on the absent
\* path itself, creates, modifies or removes a file in incoming, processed or
\* the archive.
ArchiveImmutability ==
    [][/\ \A name \in AllNames :
            TextArchivedBefore(name) /\ TextRestart => name \notin textTodo'
       /\ \A name \in AllNames :
            TextArchivedBefore(name) /\ TextDrain(name)
                => UNCHANGED textFiles /\ textCur' = None
       /\ incoming = NoFiles /\ archiveTexts # NoFiles
            /\ (TextRestart \/ TextStartWatch \/ \E name \in AllNames : TextDrain(name))
                => UNCHANGED textFiles /\ textCur' = None]_vars

\* The service was started again after every capture had been archived, and
\* its second sweep is over: the archived records are as the first run left
\* them.
RerunAfterArchive ==
    /\ textRuns = 1
    /\ textPc = "watching"
    /\ captured = MaxCaptures
    /\ botWrite = None
    /\ incoming = NoFiles
    /\ papRuns = 0
    /\ \A name \in DOMAIN processed : TextArchivedBefore(name)
    /\ Cardinality(DOMAIN archiveTexts) = MaxCaptures

\* The documents of the given kinds, dated `day`, that move_to_obsidian has
\* filed in the vault, in whatever folder.
FiledFor(kinds, day) ==
    {n \in DOMAIN vault : n[2][1] \in kinds /\ DayOf(n[2][2]) = day}

\* The section create_daily_note has just written to today's note.
LastSection(notes) == notes[Len(notes)]

\* C32: each count create_daily_note writes is the number of documents of
\* that kind, dated today, that move_to_obsidian has filed in the vault.
DigestCountsMatchRouting ==
    [][CreateDailyNote =>
          LET today == DayOf(clock)
              section == LastSection(digest'[today])
          IN /\ section.todos = Cardinality(FiledFor({"todo"}, today))
             /\ section.ideas = Cardinality(FiledFor({"idea"}, today))
             /\ section.voice =
                    Cardinality(FiledFor({"voice", "voice_transcription"}, today))
             /\ section.notes = Cardinality(FiledFor({"note"}, today))]_vars

\* Every file of voices but the given ones is in voices' as it was.
OthersKept(names) ==
    \A n \in DOMAIN voices \ names : Exists(voices', n) /\ voices'[n] = voices[n]

\* C33: after a successful read of the engine's output, transcribe has
\* deleted the .txt and the .wav it converted and nothing else; when the
\* engine fails or leaves no output it deletes nothing; no step of transcribe
\* deletes or modifies the audio it was given.
TemporaryArtifacts ==
    [][/\ ReadTranscription /\ Exists(voices, Txt(voiceCur.sec))
            => /\ ~Exists(voices', Txt(voiceCur.sec))
               /\ ~Exists(voices', Wav(voiceCur.sec))
               /\ DOMAIN voices' \subseteq DOMAIN voices
               /\ OthersKept({Txt(voiceCur.sec), Wav(voiceCur.sec)})
       /\ ReadTranscription /\ ~Exists(voices, Txt(voiceCur.sec))
            => UNCHANGED voices
       /\ \A exit \in {0, 1}, output \in Transcripts \cup {"None"} :
            RunWhisper(exit, output) /\ exit # 0 => UNCHANGED voices
       /\ \/ \E ok \in BOOLEAN : ConvertOggToWav(ok)
          \/ \E exit \in {0, 1}, output \in Transcripts \cup {"None"} :
                RunWhisper(exit, output)
          \/ ReadTranscription
            => OthersKept({Txt(voiceCur.sec), Wav(voiceCur.sec)})]_vars

\* transcribe has read a transcript: the audio it was given is in voices, the
\* .txt and the .wav are gone; an earlier call ended on an engine failure.
ArtifactsCleanedAfterRead ==
    /\ voiceCur # None
    /\ voiceCur.step = "returned"
    /\ voiceCur.transcription = "words"
    /\ Exists(voices, Ogg(voiceCur.sec))
    /\ ~Exists(voices, Wav(voiceCur.sec))
    /\ ~Exists(voices, Txt(voiceCur.sec))
    /\ <<"engine_failed", "None">> \in trLog

\* What is left of run: it decreases with every step run takes.
RunMeasure ==
    CASE runPc \in {"done", "raised"} -> 0
      [] runPc = "idle" -> 2 * max_retries + 1
      [] runPc = "polling" -> 2 * (max_retries - attempt)
      [] runPc = "sleeping" -> 2 * (max_retries - attempt) - 1

\* C34: run makes at most 10 attempts; a normal return or a KeyboardInterrupt
\* ends it without a further attempt; a failure before the 10th attempt is
\* followed by a wait and the next attempt; a failure of the 10th attempt is
\* raised again; every step of run brings it nearer to its end, and it never
\* steps after its end.
BoundedReconnect ==
    /\ [](attempt \in 0..9 /\ Len(slept) <= 9)
    /\ [][/\ \A outcome \in {"normal", "KeyboardInterrupt"} :
               AttemptEnds(outcome) => runPc' = "done" /\ attempt' = attempt
          /\ \A outcome \in ErrorClasses :
               AttemptEnds(outcome) /\ attempt + 1 < 10
                   => runPc' = "sleeping" /\ slept' = Append(slept, retry_delay)
          /\ \A outcome \in ErrorClasses :
               AttemptEnds(outcome) /\ attempt + 1 = 10
                   => runPc' = "raised" /\ slept' = slept
          /\ RunRetry => runPc' = "polling" /\ attempt' = attempt + 1
          /\ runPc \in {"done", "raised"} => runPc' = runPc /\ attempt' = attempt
          /\ RunMeasure' <= RunMeasure
          /\ <<runPc, attempt>>' # <<runPc, attempt>> => RunMeasure' < RunMeasure]_vars

\* Ten attempts failed: nine waits, and the error of the tenth was raised.
TenthFailureRaised ==
    /\ runPc = "raised"
    /\ attempt = 9
    /\ Len(slept) = 9
    /\ Exists(threads, "bot") /\ threads["bot"] = "ended"

\* min(a, b)
Min(a, b) == IF a < b THEN a ELSE b

\* C35: the wait before the k-th retry is min(5 * 2^(k-1), 300) seconds, that
\* is 5, 10, 20, 40, 80, 160, 300, 300, 300; the waits never decrease and
\* never exceed 300, whatever the classes of the errors.
CappedBackoff ==
    /\ \A k \in 1..Len(slept) : slept[k] = Min(5 * 2 ^ (k - 1), 300)
    /\ IsPrefix(slept, <<5, 10, 20, 40, 80, 160, 300, 300, 300>>)
    /\ \A k \in 1..Len(slept) : slept[k] <= 300
    /\ \A j, k \in 1..Len(slept) : j <= k => slept[j] <= slept[k]
    /\ runPc = "sleeping" => retry_delay = slept[Len(slept)]

\* Nine waits, after failures of all three classes.
NineWaitsMixedErrors ==
    /\ Len(slept) = 9
    /\ errors = ErrorClasses
    /\ runPc = "polling"

\* C36: once main has ended on a KeyboardInterrupt, every thread it started
\* that is still alive is a daemon thread, so that the process exits.
ShutdownStopsEveryThread ==
    mainPc = "exited" => \A t \in DOMAIN threads : threads[t] = "alive" => Daemon(t)

\* The file names of the rendered documents there are: in ready, filed in
\* the vault, or archived by the Vault Publisher.
RenderedDocuments ==
    DOMAIN ready \cup DOMAIN archived \cup {n[2] : n \in DOMAIN vault}

\* C37: when process_all_pending has reported N items with status success,
\* N distinct rendered documents exist, in ready or moved on by the Vault
\* Publisher: no save_formatted_content call has overwritten a document of
\* an earlier call.
DistinctRenderedDocuments ==
    processed_items.success <= Cardinality(RenderedDocuments)

\* The body process_all_pending renders for a record (lines 331-334).
RecordBody(data) ==
    IF GetField(data, "type", "note") = "voice_transcription"
    THEN GetField(data, "transcription", "")
    ELSE GetField(data, "content", "")

\* The document saved at this second under the name of the kind holds `body`.
SavedNow(dir, contentType, body) ==
    /\ Exists(dir, ReadyFileName(contentType, clock))
    /\ dir[ReadyFileName(contentType, clock)].body = body
    /\ dir[ReadyFileName(contentType, clock)].created = clock

\* A step of one of the two tools that handles a record.
ToolStep ==
    \/ \E name \in AllNames :
            PapItem(name) \/ PapItemSaveRaises(name) \/ PapItemMoveFails(name)
    \/ \E dirName \in StageNames, name \in AllNames :
            ProcessForObsidianSource(1, "idea", "analysis", dirName, name)
    \/ ProcessForObsidianRaises

\* C38: process_all_pending and process_for_obsidian move a source record to
\* the archive only in a call that has saved the rendered document to ready;
\* when save_formatted_content raises, the source record stays in its stage
\* directory and nothing is archived.
ArchiveOnlyAfterRendered ==
    [][/\ \A name \in AllNames :
            PapItem(name) /\ archive' # archive
                => SavedNow(ready', GetField(PapDir[name], "type", "note"),
                            RecordBody(PapDir[name]))
       /\ \A dirName \in StageNames, name \in AllNames :
            ProcessForObsidianSource(1, "idea", "analysis", dirName, name)
                /\ archive' # archive
                => SavedNow(ready', "idea", 1)
       /\ (ProcessForObsidianRaises \/ \E name \in AllNames : PapItemSaveRaises(name))
            => UNCHANGED <<incoming, processed, archive, ready>>
       /\ ToolStep /\ archive' # archive
            => \E out \in DOMAIN ready' : ready'[out].created = clock]_vars

\* A batch run has ended with one item saved and archived and one whose save
\* failed: the failed record is still in incoming, and not in the archive.
SaveFailureLeftSource ==
    /\ papPc = "idle"
    /\ processed_items = [success |-> 1, error |-> 1]
    /\ Cardinality(DOMAIN archive) = 1
    /\ Cardinality(DOMAIN ready) = 1
    /\ \E name \in DOMAIN incoming :
          /\ Parses(incoming[name])
          /\ \A a \in DOMAIN archive : archive[a] # incoming[name]

\* The number of the first free name move_processed_file finds for a source:
\* 0 for archive/<name>, n for archive/<stem>_<n><suffix>.
FirstFree(name) ==
    LET free == {n \in 0..Cardinality(DOMAIN archive) :
                    ~Exists(archive, <<name[1], name[2], n>>)}
    IN CHOOSE n \in free : \A m \in free : n <= m

\* `data` went to the first free archive name of `name`, and the archive is
\* otherwise as it was.
MovedToFirstFree(name, data) ==
    LET dest == <<name[1], name[2], FirstFree(name)>>
    IN /\ ~Exists(archive, dest)
       /\ DOMAIN archive' = DOMAIN archive \cup {dest}
       /\ archive'[dest] = data
       /\ \A a \in DOMAIN archive : archive'[a] = archive[a]

\* C39: move_processed_file moves the source to archive/<name> when that
\* name is free, else to the first free archive/<stem>_<n><suffix>, n = 1,
\* 2, ...; the files already in the archive stay as they are; for a source
\* that does not exist it changes nothing, and its caller goes on as after a
\* move: it never raises.
NeverOverwritesArchive ==
    [][/\ \A name \in AllNames :
            PapItem(name) /\ Exists(PapDir, name) /\ Parses(PapDir[name])
                => MovedToFirstFree(name, PapDir[name])
       /\ \A dirName \in StageNames, name \in AllNames :
            ProcessForObsidianSource(1, "idea", "analysis", dirName, name)
                => /\ SavedNow(ready', "idea", 1)
                   /\ toolCalls' = toolCalls + 1
                   /\ IF Exists(StageDir(dirName), name)
                      THEN MovedToFirstFree(name, StageDir(dirName)[name])
                      ELSE UNCHANGED <<incoming, processed, archive>>
       /\ \A a \in DOMAIN archive : Exists(archive', a) /\ archive'[a] = archive[a]]_vars

\* Two sources of one name were moved: the archive holds the first under the
\* name and the second under the name with suffix 1; and a call of
\* process_for_obsidian has named a source that was not there.
ArchivedUnderSuffix ==
    /\ \E name \in AllNames :
          /\ Exists(archive, <<name[1], name[2], 0>>)
          /\ Exists(archive, <<name[1], name[2], 1>>)
          /\ archive[<<name[1], name[2], 0>>] # archive[<<name[1], name[2], 1>>]
    /\ toolCalls > Cardinality(DOMAIN archive) - processed_items.success

====
